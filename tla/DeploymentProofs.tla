-------------------------- MODULE DeploymentProofs --------------------------
(***************************************************************************)
(* Proofs about the commands that compete for the deployment of a machine, *)
(* for any number of processes and commands: what was started is marked as *)
(* started, and runs on the secrets on disk; and about the migration of    *)
(* the database it starts on, for any number of migrators, applications,   *)
(* runs, deaths and failing statements: the schema is whole; and about the *)
(* files around the transaction that prepares it, for any number of kills  *)
(* and edits: they are those of before or of after, and what is an         *)
(* operator's is left to the operator.                                     *)
(*                                                                         *)
(* StartedIsMarked is not inductive: that a marker names the identity when *)
(* a control record goes away rests on what the record says of the files   *)
(* and of what runs (Recorded), on what each process knows at the place it *)
(* has reached (Knows), and on the lock: while one process is under way    *)
(* the others wait, and docker works for it (Locked).  All of this ends    *)
(* when a docker compose outlives its wrapper.                             *)
(*                                                                         *)
(* SchemaWhole is not either.  That a refused database is refused for ever *)
(* needs what is wrong with it, and that no step of an application mends   *)
(* it (Disordered); that a database in order is only refused after a       *)
(* failure, what a migrator leaves of it (Ordered); that a version says    *)
(* what is there, what a transaction has applied (Transacts); that runs    *)
(* are numbered ahead, what an application has created and healed          *)
(* (Applications), beside a migrator that creates the counter anew.        *)
(*                                                                         *)
(* The files are whole in the end because of what they are on the way: for *)
(* the directories what the record says of each (Named, Advanced) and,     *)
(* with no edit, that each is as recorded (LeftAlone); for the environment *)
(* what each record and each place says of the backup (Backed), of the two *)
(* exchanges (Sided) and of the files beside (Published, PutBack), and,    *)
(* with no edit, on which side of an exchange it is (OnWay, Forth, Aback). *)
(***************************************************************************)
EXTENDS MCDeployment, PreparationTransactionProofs, WellFoundedInduction, TLAPS

-----------------------------------------------------------------------------
(* What holds while no docker compose has outlived its wrapper.            *)

\* The control records: a command, how far it is, the identity it is about, and
\* for an adoption whether the runtime was seen.
ClearPhases == {"planned", "checked", "backed", "written", "complete"}
AdoptPhases == {"planned", "created", "checked", "marked", "complete"}
Records ==
    [command : {"clear", "adopt"}, phase : ClearPhases \cup AdoptPhases,
     identity : Nat, runtime : BOOLEAN]
Positions ==
    {"idle", "wait", "locked", "rotate", "clean", "identity", "committed", "execute",
     "run", "docker", "write", "check", "gates", "move", "moved", "receipt", "receipted",
     "unlink", "cleared", "drop", "rmdir", "examine", "mark", "noted", "remark",
     "adopt", "named", "final", "adopted", "supplement"}

\* The types of the files, of the world, and of the processes.
FileTypes ==
    /\ identity \in Nat /\ marker \in Nat /\ backup \in Nat
    /\ secrets \in Nat /\ receipt \in BOOLEAN
    /\ \/ control = Control!Rest \/ control = Control!Bare \/ control = Control!Initializing
       \/ control \in Records
    /\ control.command = "clear" => control.phase \in ClearPhases
    /\ control.command = "adopt" => control.phase \in AdoptPhases
WorldTypes ==
    /\ runtime \in [containers : BOOLEAN, data : BOOLEAN, secrets : Nat]
    /\ docker \in [verb : {"none", "up", "down", "done"}, by : Operators \cup {0}]
ProcessTypes ==
    /\ holder \in Operators \cup {0} /\ pc \in [Operators -> Positions]
    /\ cmd \in [Operators -> Control!Commands \cup {"none"}]
    /\ plan \in [Operators -> Nat]
    /\ used \in [ids : Nat, runs : Nat, kills : Nat, faults : Nat]

\* Only the holder of the lock is under way, and docker runs for it.
Locked ==
    /\ \A p \in Operators : pc[p] \in {"idle", "wait"} \/ holder = p
    /\ docker.verb # "none" =>
         /\ docker.by \in Operators /\ pc[docker.by] = "docker"
         /\ (docker.verb = "up" => cmd[docker.by] = "up")
\* What was planned with an identity was planned with one.
PlansName ==
    \A p \in Operators :
        pc[p] # "idle" /\ cmd[p] \in {"prepare", "up", "down"} => plan[p] # 0

\* What runs is marked, but while an adoption is under way, and on the secrets.
Marked ==
    Control!Running /\ identity # 0 /\ control.command # "adopt" => marker = identity
OnSecrets == Control!Running => runtime.secrets = secrets

\* What a control record says of the files and of what runs.
Cleared == control.command = "clear" /\ control.phase # "planned"
Adopting == control.command = "adopt"
Seen == Control!Running => control.runtime
Finished ==
    /\ Adopting /\ control.phase = "complete"
    /\ Control!Running => marker = control.identity
Recorded ==
    /\ Cleared => ~Control!Running
    /\ control = Control!Initializing => ~Control!Running /\ ~receipt
    /\ control = Control!Rest => ~receipt
    /\ Adopting /\ control.phase = "complete" => identity = control.identity
    /\ Adopting /\ receipt => control.phase = "complete"

\* What a process knows where it is.
Composes(p) ==
    /\ control = Control!Rest /\ cmd[p] \in {"up", "down"}
    /\ cmd[p] = "up" => identity # 0 /\ marker = identity
Clears(p) == cmd[p] = "clear" /\ Cleared
Adopts(p) == cmd[p] = "adopt" /\ Adopting
Knows(p) ==
    /\ pc[p] = "rotate" => ~Control!Running
    /\ pc[p] \in {"run", "docker"} => Composes(p)
    /\ pc[p] \in {"identity", "committed"} => control = Control!Initializing
    /\ pc[p] = "write" => control = Control!Bare /\ ~receipt /\ cmd[p] \in Control!Resumable
    /\ pc[p] = "check" => cmd[p] = "clear" /\ control.command = "clear"
    /\ pc[p] \in {"gates", "move", "moved", "receipted", "unlink", "cleared"} => Clears(p)
    /\ pc[p] = "receipt" => Clears(p) \/ (Adopts(p) /\ Finished)
    /\ pc[p] = "drop" => Cleared \/ Finished
    /\ pc[p] = "rmdir" => control = Control!Bare
    /\ pc[p] \in {"examine", "mark", "noted", "remark", "adopt", "named"} =>
         Adopts(p) /\ ~receipt
    /\ pc[p] \in {"mark", "noted", "remark", "adopt", "named", "final", "supplement"} =>
         Adopts(p) /\ Seen
    /\ pc[p] = "named" => identity = control.identity
    /\ pc[p] = "final" => control.phase = "complete"
    /\ pc[p] \in {"adopted", "supplement"} => Adopts(p) /\ receipt

ControlTypes == FileTypes /\ WorldTypes /\ ProcessTypes
ControlFacts == Marked /\ OnSecrets /\ Recorded
\* What holds of a state in which no docker compose has outlived its wrapper.
Sound ==
    /\ ControlTypes /\ Locked /\ PlansName /\ ControlFacts
    /\ \A p \in Operators : Knows(p)
ControlInv == ~outlived => Sound
-----------------------------------------------------------------------------

\* A step of the process that holds the lock, while docker is left alone.
HolderMoves(p) ==
    /\ pc[p] \notin {"idle", "wait"}
    /\ docker' = docker /\ runtime' = runtime /\ outlived' = outlived
    /\ cmd' = cmd /\ plan' = plan
    /\ used' = used \/ used' = [used EXCEPT !.faults = @ + 1]
    /\ \/ holder' = 0 /\ pc' = [pc EXCEPT ![p] = "idle"]
       \/ holder' = holder /\ \E x \in Positions : pc' = [pc EXCEPT ![p] = x]

\* ... and that keeps what holds of the files and of what the process knows.
HolderKeeps(p) ==
    /\ HolderMoves(p) /\ pc[p] # "docker"
    /\ FileTypes' /\ ControlFacts' /\ Knows(p)'

\* A process that has nothing to remember.
LEMMA KnowsNothing ==
    ASSUME NEW q \in Operators, pc'[q] \in {"idle", "wait", "locked", "clean", "execute"}
    PROVE  Knows(q)'
BY DEF Knows

\* The others wait: what such a step leaves to be shown is about the files, what
\* runs, and what the process itself knows.
LEMMA HolderMovesSound ==
    ASSUME NEW p \in Operators, Sound, HolderKeeps(p)
    PROVE  Sound'
<1> USE DEF Sound, HolderKeeps, HolderMoves, ControlTypes, ProcessTypes, Locked
<1>1. ControlTypes'
  <2>1. pc' \in [Operators -> Positions]
    BY DEF Positions
  <2>2. used' \in [ids : Nat, runs : Nat, kills : Nat, faults : Nat]
    OBVIOUS
  <2> QED BY <2>1, <2>2 DEF WorldTypes
<1>2. /\ \A q \in Operators \ {p} : pc'[q] = pc[q] /\ pc[q] \in {"idle", "wait"}
      /\ pc'[p] = "idle" \/ holder' = p
  BY NoneIsNoOperator
<1>3. docker.verb = "none"
  <2>1. docker.verb # "none" => holder = docker.by
    OBVIOUS
  <2> QED BY <2>1
<1>4. Locked'
  <2>1. docker'.verb = "none"
    BY <1>3
  <2>2. \A q \in Operators : pc'[q] \in {"idle", "wait"} \/ holder' = q
    BY <1>2
  <2> QED BY <2>1, <2>2
<1>5. PlansName'
  BY <1>2 DEF PlansName
<1>6. \A q \in Operators : Knows(q)'
  BY <1>2, KnowsNothing
<1> QED BY <1>1, <1>4, <1>5, <1>6

\* What such a step may use.
LEMMA SoundHere ==
    ASSUME NEW p \in Operators, Sound
    PROVE  /\ ControlTypes /\ FileTypes /\ WorldTypes /\ ProcessTypes /\ PlansName
           /\ ControlFacts /\ Marked /\ OnSecrets /\ Recorded /\ Knows(p)
           /\ pc[p] \in Positions
BY DEF Sound, ControlTypes, ProcessTypes, ControlFacts

\* Rotation, initialization and recovery: the steps of a preparation.
LEMMA PreparationSteps ==
    ASSUME NEW p \in Operators, Sound,
           \/ Control!Prepare(p) \/ Control!Rotate(p) \/ Control!Clean(p)
           \/ Control!Initialize(p) \/ Control!PublishIdentity(p)
           \/ Control!FinishInitialization(p) \/ Control!Execute(p) \/ Control!Recover(p)
    PROVE  Sound'
<1> USE DEF HolderKeeps, Control!Go, Control!Leave, Control!Refuse, Control!At, Control!Runs,
            Control!files, Control!world, Control!None, Control!NoIncompleteTransactions
<1> SUFFICES HolderKeeps(p)
  BY HolderMovesSound
<1>0. /\ FileTypes /\ ProcessTypes /\ ControlFacts /\ Knows(p) /\ PlansName
      /\ pc[p] \in Positions
  BY SoundHere
<1>1. CASE Control!Prepare(p)
  <2>1. HolderMoves(p) /\ pc[p] # "docker" /\ FileTypes'
    BY <1>0, <1>1 DEF Control!Prepare, HolderMoves, Positions, FileTypes
  <2>2. ControlFacts'
    BY <1>0, <1>1 DEF Control!Prepare, ControlFacts, Marked, OnSecrets, Recorded, Cleared,
                      Adopting, Control!Running
  <2>3. Knows(p)'
    BY <1>0, <1>1 DEF Control!Prepare, Control!PlanAgain, Control!RotationAllowed,
                      Control!Started, ProcessTypes, Knows, ControlFacts, Marked, PlansName,
                      Control!Running, Control!Rest
  <2> QED BY <2>1, <2>2, <2>3
<1>2. CASE Control!Rotate(p)
  BY <1>0, <1>2 DEF Control!Rotate, HolderMoves, Positions, FileTypes, ControlFacts, Marked,
        OnSecrets, Recorded, Cleared, Adopting, Control!Running, ProcessTypes, Knows
<1>3. CASE Control!Clean(p)
  BY <1>0, <1>3 DEF Control!Clean, HolderMoves, Positions, FileTypes, ControlFacts, Marked,
        OnSecrets, Recorded, Cleared, Adopting, Control!Running, ProcessTypes, Knows
<1>4. CASE Control!Initialize(p)
  <2>1. HolderMoves(p) /\ pc[p] # "docker"
    BY <1>0, <1>4 DEF Control!Initialize, HolderMoves, Positions
  <2>2. CASE identity = 0 /\ pc' = [pc EXCEPT ![p] = "identity"]
    <3>1. ~Control!Running /\ control = Control!Rest
      BY <1>0, <1>4, <2>2 DEF Control!Initialize, Control!InitializationGates, ProcessTypes
    <3> QED BY <1>0, <1>4, <2>1, <2>2, <3>1 DEF Control!Initialize, FileTypes, ControlFacts,
                Marked, OnSecrets, Recorded, Cleared, Adopting, Control!Running, ProcessTypes,
                Knows, Control!Rest, Control!Initializing
  <2>3. CASE ~(identity = 0 /\ pc' = [pc EXCEPT ![p] = "identity"])
    BY <1>0, <1>4, <2>1, <2>3 DEF Control!Initialize, FileTypes, ControlFacts, Marked,
        OnSecrets, Recorded, Cleared, Adopting, Control!Running, ProcessTypes, Knows
  <2> QED BY <2>2, <2>3
<1>5. CASE Control!PublishIdentity(p)
  BY <1>0, <1>5 DEF Control!PublishIdentity, HolderMoves, Positions, FileTypes, ControlFacts,
        Marked, OnSecrets, Recorded, Cleared, Adopting, Control!Running, ProcessTypes, Knows,
        Control!Initializing
<1>6. CASE Control!FinishInitialization(p)
  BY <1>0, <1>6 DEF Control!FinishInitialization, HolderMoves, Positions, FileTypes, ControlFacts,
        Marked, OnSecrets, Recorded, Cleared, Adopting, Control!Running, ProcessTypes, Knows,
        Control!Initializing, Control!Rest
<1>7. CASE Control!Execute(p)
  BY <1>0, <1>7 DEF Control!Execute, HolderMoves, Positions, FileTypes, ControlFacts, Marked,
        OnSecrets, Recorded, Cleared, Adopting, Control!Running, ProcessTypes, Knows
<1>8. CASE Control!Recover(p)
  BY <1>0, <1>8 DEF Control!Recover, HolderMoves, Positions, FileTypes, ControlFacts, Marked,
        OnSecrets, Recorded, Cleared, Adopting, Control!Running, ProcessTypes, Knows
<1> QED BY <1>1, <1>2, <1>3, <1>4, <1>5, <1>6, <1>7, <1>8

\* The records of the commands that resume: opened, written, removed.
LEMMA WritingSteps ==
    ASSUME NEW p \in Operators, Sound, Control!Writing(p)
    PROVE  Sound'
<1> USE DEF HolderKeeps, Control!Go, Control!Leave, Control!Refuse, Control!At, Control!Runs,
            Control!files, Control!world, Control!process, Control!None
<1> SUFFICES HolderKeeps(p)
  BY HolderMovesSound
<1>0. /\ FileTypes /\ ProcessTypes /\ ControlFacts /\ Knows(p) /\ PlansName
      /\ pc[p] \in Positions
  BY SoundHere
<1>1. CASE Control!SelectControl(p)
  <2>1. HolderMoves(p) /\ pc[p] # "docker"
    BY <1>0, <1>1 DEF Control!SelectControl, HolderMoves, Positions, Control!ResumeAt,
        Control!Opens, Control!Resumable, FileTypes, Records, ClearPhases, Control!Rest,
        Control!Bare, Control!Initializing
  <2>2. FileTypes' /\ ControlFacts'
    BY <1>0, <1>1 DEF Control!SelectControl, FileTypes, ControlFacts, Marked, OnSecrets,
        Recorded, Cleared, Adopting, Control!Running, Control!Rest, Control!Bare,
        Control!Initializing
  <2>3. CASE control = Control!Rest
    BY <1>0, <1>1, <2>1, <2>2, <2>3 DEF Control!SelectControl, ProcessTypes, Knows,
        Control!Rest, Control!Bare, Control!Initializing, ControlFacts, Recorded
  <2>4. CASE control # Control!Rest /\ control.command = cmd[p] /\ cmd[p] = "clear"
    BY <1>0, <1>1, <2>1, <2>2, <2>4 DEF Control!SelectControl, ProcessTypes, Knows,
        Control!ResumeAt, Control!Opens, Clears, Cleared, Adopting, FileTypes, ClearPhases
  <2>5. CASE control # Control!Rest /\ control.command = cmd[p] /\ cmd[p] = "adopt"
    BY <1>0, <1>1, <2>1, <2>2, <2>5 DEF Control!SelectControl, ProcessTypes, Knows,
        Control!ResumeAt, Control!Opens, Adopts, Cleared, Adopting
  <2>6. CASE control # Control!Rest /\ control.command # cmd[p]
    BY <1>0, <1>1, <2>1, <2>2, <2>6 DEF Control!SelectControl, ProcessTypes, Knows,
        Control!Opens
  <2> QED BY <1>1, <2>3, <2>4, <2>5, <2>6 DEF Control!SelectControl, Control!Resumable
<1>2. CASE Control!WriteRecord(p)
  <2> DEFINE named == IF cmd[p] = "clear" THEN identity ELSE plan[p]
  <2>1. control = Control!Bare /\ ~receipt /\ cmd[p] \in {"clear", "adopt"} /\ named \in Nat
    BY <1>0, <1>2 DEF Control!WriteRecord, Knows, Control!Resumable, FileTypes, ProcessTypes
  <2>2. /\ control' \in Records /\ control'.command = cmd[p] /\ control'.phase = "planned"
        /\ control' # Control!Rest /\ control' # Control!Initializing
    BY <1>2, <2>1 DEF Control!WriteRecord, Control!NewRecord, Records, ClearPhases,
        Control!Rest, Control!Initializing
  <2> HIDE DEF named
  <2>3. HolderMoves(p) /\ pc[p] # "docker"
    BY <1>0, <1>2 DEF Control!WriteRecord, HolderMoves, Positions
  <2>4. FileTypes' /\ ControlFacts'
    BY <1>0, <1>2, <2>1, <2>2 DEF Control!WriteRecord, FileTypes, ClearPhases, AdoptPhases,
        ControlFacts, Marked, OnSecrets, Recorded, Cleared, Adopting, Control!Running,
        Control!Bare
  <2>5. Knows(p)'
    BY <1>0, <1>2, <2>1, <2>2 DEF Control!WriteRecord, ProcessTypes, Knows, Adopts, Adopting
  <2> QED BY <2>3, <2>4, <2>5
<1>3. CASE Control!RemoveFile(p)
  <2>1. CASE pc[p] = "drop" /\ control' = Control!Bare /\ pc' = [pc EXCEPT ![p] = "rmdir"]
    BY <1>0, <1>3, <2>1 DEF Control!RemoveFile, HolderMoves, Positions, FileTypes, ControlFacts,
        Marked, OnSecrets, Recorded, Cleared, Adopting, Finished, Control!Running,
        ProcessTypes, Knows, Control!Rest, Control!Bare, Control!Initializing
  <2>2. CASE UNCHANGED <<control, holder, cmd, pc, plan>>
    <3>1. pc' = [pc EXCEPT ![p] = pc[p]]
      BY <1>0, <2>2 DEF ProcessTypes
    <3>2. HolderMoves(p) /\ pc[p] # "docker"
      BY <1>0, <1>3, <2>2, <3>1 DEF Control!RemoveFile, HolderMoves
    <3>3. UNCHANGED <<identity, marker, receipt, secrets, runtime>> /\ backup' \in {backup, 0}
      BY <1>3 DEF Control!RemoveFile
    <3> QED BY <1>0, <2>2, <3>2, <3>3 DEF FileTypes, ControlFacts, Marked, OnSecrets, Recorded,
        Cleared, Adopting, Finished, Control!Running, Knows, Composes, Clears, Adopts, Seen
  <2> QED BY <1>3, <2>1, <2>2 DEF Control!RemoveFile
<1>4. CASE Control!RemoveDirectory(p)
  <2>1. HolderMoves(p) /\ pc[p] # "docker"
    BY <1>0, <1>4 DEF Control!RemoveDirectory, HolderMoves, Positions
  <2>2. FileTypes'
    BY <1>0, <1>4 DEF Control!RemoveDirectory, FileTypes, Control!Rest
  <2>3. control = Control!Bare
    BY <1>0, <1>4 DEF Control!RemoveDirectory, Knows
  <2>4. ControlFacts'
    BY <1>0, <1>4, <2>3 DEF Control!RemoveDirectory, ControlFacts, Marked, OnSecrets, Recorded,
        Cleared, Adopting, Control!Running, Control!Rest, Control!Bare, Control!Initializing
  <2>5. Knows(p)'
    BY <1>0, <1>4, KnowsNothing DEF Control!RemoveDirectory, ProcessTypes
  <2> QED BY <2>1, <2>2, <2>4, <2>5
<1> QED BY <1>1, <1>2, <1>3, <1>4 DEF Control!Writing

\* clear_start_marker: nothing runs from the check on.
LEMMA ClearSteps ==
    ASSUME NEW p \in Operators, Sound, Control!Clear(p)
    PROVE  Sound'
<1> USE DEF HolderKeeps, Control!Go, Control!Leave, Control!Refuse, Control!At, Control!Runs,
            Control!files, Control!world, Control!None, Control!Advance, Control!Reachable,
            Control!Unreachable
<1> SUFFICES HolderKeeps(p)
  BY HolderMovesSound
<1>0. /\ FileTypes /\ ProcessTypes /\ ControlFacts /\ Knows(p) /\ PlansName
      /\ pc[p] \in Positions
  BY SoundHere
<1>a. ASSUME control \in Records, NEW f \in ClearPhases, control.command = "clear",
             control' = [control EXCEPT !.phase = f]
      PROVE  /\ control'.phase = f /\ control'.command = "clear" /\ control' \in Records
             /\ control'.identity = control.identity
             /\ control' # Control!Rest /\ control' # Control!Initializing
  BY <1>a DEF Records, Control!Rest, Control!Initializing
<1>b. control.command = "clear" => control \in Records
  BY <1>0 DEF FileTypes, Control!Rest, Control!Bare, Control!Initializing
<1>1. CASE Control!Check(p)
  <2>1. HolderMoves(p) /\ pc[p] # "docker"
    BY <1>0, <1>1 DEF Control!Check, HolderMoves, Positions
  <2>2. CASE /\ ~Control!Running /\ control' = [control EXCEPT !.phase = "checked"]
             /\ pc' = [pc EXCEPT ![p] = "gates"]
             /\ UNCHANGED <<identity, marker, backup, receipt, secrets, runtime, cmd>>
    BY <1>0, <1>1, <1>a, <1>b, <2>1, <2>2 DEF Control!Check, FileTypes, ClearPhases,
        ControlFacts, Marked, OnSecrets, Recorded, Cleared, Adopting, Control!Running,
        ProcessTypes, Knows, Clears
  <2>3. CASE UNCHANGED <<identity, marker, control, backup, receipt, secrets, runtime, cmd>>
             /\ pc' = [pc EXCEPT ![p] = "idle"]
    BY <1>0, <2>1, <2>3 DEF FileTypes, ControlFacts,
        Marked, OnSecrets, Recorded, Cleared, Adopting, Control!Running, ProcessTypes, Knows
  <2> QED BY <1>1, <2>2, <2>3 DEF Control!Check, Control!ClearGates
<1>2. CASE Control!Gates(p)
  <2>1. HolderMoves(p) /\ pc[p] # "docker"
    BY <1>0, <1>2 DEF Control!Gates, Control!Restore, HolderMoves, Positions
  <2>2. Clears(p) /\ ~Control!Running
    BY <1>0, <1>2 DEF Control!Gates, Knows, ControlFacts, Recorded, Clears
  <2>3. /\ identity' = identity /\ control' = control /\ receipt' = receipt
        /\ secrets' = secrets /\ runtime' = runtime /\ cmd' = cmd
        /\ marker' \in {marker, backup} /\ backup' \in {backup, 0}
    BY <1>2 DEF Control!Gates, Control!Restore
  <2>4. FileTypes'
    BY <1>0, <2>3 DEF FileTypes
  <2>5. ControlFacts'
    BY <1>0, <2>2, <2>3 DEF ControlFacts, Marked, OnSecrets, Recorded, Cleared, Adopting,
        Control!Running
  <2>6. Knows(p)'
    BY <1>0, <1>2, <2>2, <2>3 DEF Control!Gates, Control!Restore, ProcessTypes, Knows, Clears,
        Cleared, Adopting
  <2> QED BY <2>1, <2>4, <2>5, <2>6
<1>3. CASE Control!MoveMarker(p)
  <2>1. HolderMoves(p) /\ pc[p] # "docker"
    BY <1>0, <1>3 DEF Control!MoveMarker, HolderMoves, Positions
  <2>2. Clears(p) /\ ~Control!Running
    BY <1>0, <1>3 DEF Control!MoveMarker, Knows, ControlFacts, Recorded, Clears
  <2> QED BY <1>0, <1>3, <2>1, <2>2 DEF Control!MoveMarker, FileTypes, ControlFacts, Marked,
        OnSecrets, Recorded, Cleared, Adopting, Control!Running, ProcessTypes, Knows, Clears
<1>4. CASE Control!RecordMoved(p)
  BY <1>0, <1>4, <1>a, <1>b DEF Control!RecordMoved, HolderMoves, Positions, FileTypes,
        ClearPhases, ControlFacts, Marked, OnSecrets, Recorded, Cleared, Adopting,
        Control!Running, ProcessTypes, Knows, Clears
<1>5. CASE Control!WriteReceipt(p)
  <2>1. HolderMoves(p) /\ pc[p] # "docker"
    BY <1>0, <1>5 DEF Control!WriteReceipt, HolderMoves, Positions
  <2>2. Clears(p)
    BY <1>0, <1>5 DEF Control!WriteReceipt, Knows, Adopts
  <2>3. /\ UNCHANGED <<identity, marker, control, backup, secrets, runtime>>
        /\ receipt' \in {receipt, TRUE}
    BY <1>5 DEF Control!WriteReceipt
  <2>a. control # Control!Rest /\ control # Control!Initializing /\ ~Adopting
    BY <2>2 DEF Clears, Cleared, Adopting, Control!Rest, Control!Initializing
  <2>b. FileTypes' /\ ControlFacts'
    BY <1>0, <2>2, <2>3, <2>a DEF FileTypes, ControlFacts, Marked, OnSecrets, Recorded, Cleared,
        Adopting, Control!Running
  <2>4. Knows(p)'
    BY <1>0, <1>5, <2>2 DEF Control!WriteReceipt, ProcessTypes, Knows, Clears, Cleared, Adopting
  <2> QED BY <2>1, <2>4, <2>b
<1>6. CASE Control!RecordReceipt(p)
  BY <1>0, <1>6, <1>a, <1>b DEF Control!RecordReceipt, HolderMoves, Positions, FileTypes,
        ClearPhases, ControlFacts, Marked, OnSecrets, Recorded, Cleared, Adopting,
        Control!Running, ProcessTypes, Knows, Clears
<1>7. CASE Control!UnlinkBackup(p)
  BY <1>0, <1>7 DEF Control!UnlinkBackup, HolderMoves, Positions, FileTypes, ControlFacts, Marked,
        OnSecrets, Recorded, Cleared, Adopting, Control!Running, ProcessTypes, Knows, Clears
<1>8. CASE Control!RecordCleared(p)
  BY <1>0, <1>8, <1>a, <1>b DEF Control!RecordCleared, HolderMoves, Positions, FileTypes,
        ClearPhases, ControlFacts, Marked, OnSecrets, Recorded, Cleared, Adopting,
        Control!Running, ProcessTypes, Knows, Clears
<1> QED BY <1>1, <1>2, <1>3, <1>4, <1>5, <1>6, <1>7, <1>8 DEF Control!Clear

\* adopt_existing: what runs is marked before the identity is there, and again
\* before the record is gone.
LEMMA AdoptSteps ==
    ASSUME NEW p \in Operators, Sound, Control!Adopt(p)
    PROVE  Sound'
<1> USE DEF HolderKeeps, Control!Go, Control!Leave, Control!Refuse, Control!At, Control!Runs,
            Control!files, Control!world, Control!process, Control!None, Control!Advance,
            Control!Reachable, Control!Unreachable
<1> SUFFICES HolderKeeps(p)
  BY HolderMovesSound
<1>0. /\ FileTypes /\ ProcessTypes /\ ControlFacts /\ Knows(p) /\ PlansName
      /\ pc[p] \in Positions
  BY SoundHere
<1>a. ASSUME control \in Records, Adopting, NEW f \in AdoptPhases, NEW r \in BOOLEAN,
             \/ control' = [control EXCEPT !.phase = f] /\ r = control.runtime
             \/ control' = [control EXCEPT !.runtime = r] /\ f = control.phase
             \/ control' = [control EXCEPT !.runtime = r, !.phase = f]
      PROVE  /\ control'.phase = f /\ control'.command = "adopt" /\ control' \in Records
             /\ control'.identity = control.identity /\ control'.runtime = r
             /\ control' # Control!Rest /\ control' # Control!Initializing
             /\ control' # Control!Bare
  BY <1>a DEF Records, Control!Rest, Control!Bare, Control!Initializing, Adopting
<1>b. Adopting => control \in Records /\ control.phase \in AdoptPhases
                  /\ control.runtime \in BOOLEAN
  BY <1>0 DEF FileTypes, Records, Control!Rest, Control!Bare, Control!Initializing, Adopting
<1>1. CASE Control!Examine(p)
  <2>1. Adopts(p) /\ ~receipt /\ pc[p] = "examine"
    BY <1>0, <1>1 DEF Control!Examine, Knows
  <2>2. CASE /\ control.phase = "planned" /\ control' = [control EXCEPT !.phase = "created"]
             /\ UNCHANGED <<identity, marker, backup, receipt, secrets, used>>
             /\ UNCHANGED <<runtime, docker, outlived, holder, cmd, pc, plan>>
    <3>1. pc' = [pc EXCEPT ![p] = pc[p]]
      BY <1>0, <2>2 DEF ProcessTypes
    <3>2. HolderMoves(p)
      BY <1>0, <2>1, <2>2, <3>1 DEF HolderMoves
    <3>3. control'.phase = "created" /\ control'.command = "adopt" /\ control' \in Records
          /\ control' # Control!Rest /\ control' # Control!Initializing
      BY <1>a, <1>b, <2>1, <2>2 DEF Adopts, AdoptPhases
    <3> QED BY <1>0, <2>1, <2>2, <3>2, <3>3 DEF FileTypes, AdoptPhases, ControlFacts, Marked,
            OnSecrets, Recorded, Cleared, Adopting, Control!Running, Knows, Adopts
  <2>3. CASE /\ control.phase # "planned"
             /\ control' = [control EXCEPT !.runtime = @ \/ Control!Running,
                                           !.phase = IF @ = "created" THEN "checked" ELSE @]
             /\ pc' = [pc EXCEPT ![p] = CASE control'.phase = "checked" -> "mark"
                                          [] control'.phase = "marked" -> "remark"
                                          [] control'.phase = "complete" -> "final"]
             /\ UNCHANGED <<identity, marker, backup, receipt, secrets, used>>
             /\ UNCHANGED <<runtime, docker, outlived, holder, cmd, plan>>
    <3> DEFINE f == IF control.phase = "created" THEN "checked" ELSE control.phase
               r == control.runtime \/ Control!Running
    <3>1. f \in {"checked", "marked", "complete"} /\ r \in BOOLEAN
      BY <1>b, <2>1, <2>3 DEF Adopts, AdoptPhases, Control!Running
    <3>2. control' = [control EXCEPT !.runtime = r, !.phase = f]
      BY <2>3
    <3>3. /\ control'.phase = f /\ control'.command = "adopt" /\ control' \in Records
          /\ control'.identity = control.identity /\ control'.runtime = r
          /\ control' # Control!Rest /\ control' # Control!Initializing
      BY <1>a, <1>b, <2>1, <3>1, <3>2 DEF Adopts, AdoptPhases
    <3> HIDE DEF f, r
    <3>4. PICK there \in {"mark", "remark", "final"} :
            /\ pc' = [pc EXCEPT ![p] = there]
            /\ there = "final" => f = "complete"
      BY <2>3, <3>1, <3>3
    <3>5. pc'[p] = there
      BY <1>0, <3>4 DEF ProcessTypes
    <3>6. HolderMoves(p)
      BY <1>0, <2>1, <2>3, <3>4 DEF HolderMoves, Positions
    <3>7. FileTypes' /\ ControlFacts'
      BY <1>0, <2>1, <2>3, <3>1, <3>3 DEF f, FileTypes, AdoptPhases, ControlFacts, Marked,
            OnSecrets, Recorded, Cleared, Adopting, Control!Running, Adopts
    <3>8. Adopts(p)' /\ Seen' /\ ~receipt'
      BY <2>1, <2>3, <3>3 DEF r, Adopts, Adopting, Seen, Control!Running
    <3>9. Knows(p)'
      BY <3>3, <3>4, <3>5, <3>8 DEF Knows
    <3> QED BY <2>1, <3>6, <3>7, <3>9
  <2>4. CASE /\ UNCHANGED <<identity, marker, control, backup, receipt, secrets, runtime,
                            docker, outlived, cmd, plan>>
             /\ (used' = used \/ used' = [used EXCEPT !.faults = @ + 1])
             /\ holder' = 0 /\ pc' = [pc EXCEPT ![p] = "idle"]
    BY <1>0, <2>1, <2>4 DEF HolderMoves, FileTypes, ControlFacts, Marked, OnSecrets, Recorded,
        Cleared, Adopting, Control!Running, ProcessTypes, Knows
  <2> QED BY <1>1, <2>2, <2>3, <2>4 DEF Control!Examine
<1>m. ASSUME Adopts(p), Seen, pc[p] # "docker", pc[p] \notin {"idle", "wait"},
             NEW there \in Positions, Control!Mark(p, there), holder \in Operators \cup {0}
      PROVE  /\ HolderMoves(p) /\ FileTypes' /\ ControlFacts'
             /\ UNCHANGED <<identity, control, receipt, runtime, cmd>>
             /\ \/ pc' = [pc EXCEPT ![p] = "idle"]
                \/ /\ pc' = [pc EXCEPT ![p] = there]
                   /\ Control!Running => marker' = control.identity
  <2>1. HolderMoves(p)
    BY <1>0, <1>m DEF Control!Mark, HolderMoves, Positions
  <2>2. UNCHANGED <<identity, control, backup, receipt, secrets, runtime, cmd>>
    BY <1>m DEF Control!Mark
  <2>3. marker' = marker \/ marker' = control.identity
    BY <1>m DEF Control!Mark, Control!MarkerIs, Control!Candidate
  <2>4. FileTypes'
    BY <1>0, <1>b, <1>m, <2>2, <2>3 DEF FileTypes, Adopts, Records
  <2>5. ControlFacts'
    BY <1>0, <1>m, <2>2 DEF ControlFacts, Marked, OnSecrets, Recorded, Cleared, Adopting,
        Control!Running, Adopts
  <2>6. \/ pc' = [pc EXCEPT ![p] = "idle"]
        \/ /\ pc' = [pc EXCEPT ![p] = there]
           /\ Control!Running => marker' = control.identity
    BY <1>m DEF Control!Mark, Control!MarkerIs, Control!Candidate, Seen
  <2> QED BY <2>1, <2>2, <2>4, <2>5, <2>6
<1>2. CASE Control!MarkFirst(p) \/ Control!MarkAgain(p)
  <2>1. Adopts(p) /\ Seen /\ ~receipt /\ pc[p] \in {"mark", "remark"}
    BY <1>0, <1>2 DEF Control!MarkFirst, Control!MarkAgain, Knows
  <2>2. PICK there \in {"noted", "adopt"} : Control!Mark(p, there)
    BY <1>2 DEF Control!MarkFirst, Control!MarkAgain
  <2>3. there \in Positions
    BY DEF Positions
  <2>4. /\ HolderMoves(p) /\ FileTypes' /\ ControlFacts'
        /\ UNCHANGED <<identity, control, receipt, runtime, cmd>>
        /\ pc' = [pc EXCEPT ![p] = "idle"] \/ pc' = [pc EXCEPT ![p] = there]
    BY <1>0, <1>m, <2>1, <2>2, <2>3 DEF ProcessTypes
  <2>5. Knows(p)'
    BY <1>0, <2>1, <2>4 DEF ProcessTypes, Knows, Adopts, Adopting, Seen, Control!Running
  <2> QED BY <2>1, <2>4, <2>5
<1>3. CASE Control!RecordMarked(p) \/ Control!RecordAdopted(p)
  <2> DEFINE reached == IF pc[p] = "noted" THEN "marked" ELSE "complete"
             there == IF pc[p] = "noted" THEN "remark" ELSE "final"
  <2>1. /\ Adopts(p) /\ Seen /\ ~receipt /\ pc[p] \in {"noted", "named"}
        /\ pc[p] = "named" => identity = control.identity
    BY <1>0, <1>3 DEF Control!RecordMarked, Control!RecordAdopted, Knows
  <2>2. /\ control' = [control EXCEPT !.phase = reached] /\ pc' = [pc EXCEPT ![p] = there]
        /\ UNCHANGED <<identity, marker, backup, receipt, secrets, runtime, docker, outlived,
                       holder, cmd, plan, used>>
    BY <1>3 DEF Control!RecordMarked, Control!RecordAdopted
  <2>3. /\ control'.phase = reached /\ control'.command = "adopt" /\ control' \in Records
        /\ control'.identity = control.identity /\ control'.runtime = control.runtime
        /\ control' # Control!Rest /\ control' # Control!Initializing
    BY <1>a, <1>b, <2>1, <2>2 DEF Adopts, AdoptPhases
  <2>4. HolderMoves(p)
    BY <1>0, <2>1, <2>2 DEF HolderMoves, Positions
  <2>5. FileTypes' /\ ControlFacts'
    BY <1>0, <2>1, <2>2, <2>3 DEF FileTypes, AdoptPhases, ControlFacts, Marked, OnSecrets,
        Recorded, Cleared, Adopting, Control!Running, Adopts
  <2>6. Knows(p)'
    BY <1>0, <2>1, <2>2, <2>3 DEF ProcessTypes, Knows, Adopts, Adopting, Seen, Control!Running
  <2> QED BY <2>1, <2>4, <2>5, <2>6
<1>4. CASE Control!AdoptIdentity(p)
  <2>1. Adopts(p) /\ Seen /\ ~receipt /\ pc[p] = "adopt"
    BY <1>0, <1>4 DEF Control!AdoptIdentity, Knows
  <2>2. HolderMoves(p)
    BY <1>0, <1>4 DEF Control!AdoptIdentity, HolderMoves, Positions
  <2>3. FileTypes'
    BY <1>0, <1>4, <1>b, <2>1 DEF Control!AdoptIdentity, Control!Candidate, FileTypes, Records,
        Adopts
  <2>4. ControlFacts'
    BY <1>0, <1>4, <2>1 DEF Control!AdoptIdentity, Control!Candidate, ControlFacts, Marked,
        OnSecrets, Recorded, Cleared, Adopting, Control!Running, Adopts
  <2>5. Knows(p)'
    BY <1>0, <1>4, <2>1 DEF Control!AdoptIdentity, Control!Candidate, ProcessTypes, Knows,
        Adopts, Adopting, Seen, Control!Running
  <2> QED BY <2>1, <2>2, <2>3, <2>4, <2>5
<1>5. CASE Control!MarkLast(p) \/ Control!Supplement(p)
  <2> DEFINE there == IF pc[p] = "final" THEN "receipt" ELSE "drop"
  <2>1. /\ Adopts(p) /\ Seen /\ control.phase = "complete" /\ pc[p] \in {"final", "supplement"}
    BY <1>0, <1>5 DEF Control!MarkLast, Control!Supplement, Knows, ControlFacts, Recorded,
        Adopts
  <2>2. there \in Positions
    BY DEF Positions
  <2>3. CASE control.runtime
    <3>1. Control!Mark(p, there)
      BY <1>5, <2>3 DEF Control!MarkLast, Control!Supplement
    <3>2. /\ HolderMoves(p) /\ FileTypes' /\ ControlFacts'
          /\ UNCHANGED <<identity, control, receipt, runtime, cmd>>
          /\ \/ pc' = [pc EXCEPT ![p] = "idle"]
             \/ /\ pc' = [pc EXCEPT ![p] = there]
                /\ Control!Running => marker' = control.identity
      BY <1>0, <1>m, <2>1, <2>2, <3>1 DEF ProcessTypes
    <3>3. Knows(p)'
      BY <1>0, <2>1, <3>2 DEF ProcessTypes, Knows, Adopts, Adopting, Finished, Control!Running
    <3> QED BY <2>1, <3>2, <3>3
  <2>4. CASE ~control.runtime
    <3>1. /\ UNCHANGED <<identity, marker, control, backup, receipt, secrets, runtime, docker,
                         outlived, holder, cmd, plan, used>>
          /\ pc' = [pc EXCEPT ![p] = there]
      BY <1>5, <2>4 DEF Control!MarkLast, Control!Supplement
    <3>2. HolderMoves(p)
      BY <1>0, <2>1, <2>2, <3>1 DEF HolderMoves
    <3>3. FileTypes' /\ ControlFacts'
      BY <1>0, <3>1 DEF FileTypes, ControlFacts, Marked, OnSecrets, Recorded, Cleared,
        Adopting, Control!Running
    <3>4. Knows(p)'
      BY <1>0, <2>1, <2>4, <3>1 DEF ProcessTypes, Knows, Adopts, Adopting, Finished, Seen,
        Control!Running
    <3> QED BY <2>1, <3>2, <3>3, <3>4
  <2> QED BY <2>3, <2>4
<1>6. CASE Control!AdoptionReceipt(p)
  <2>1. Adopts(p) /\ Finished /\ pc[p] = "receipt"
    BY <1>0, <1>6 DEF Control!AdoptionReceipt, Knows, Clears
  <2>2. HolderMoves(p)
    BY <1>0, <1>6 DEF Control!AdoptionReceipt, HolderMoves, Positions
  <2>3. FileTypes' /\ ControlFacts'
    BY <1>0, <1>6, <2>1 DEF Control!AdoptionReceipt, FileTypes, ControlFacts, Marked, OnSecrets,
        Recorded, Cleared, Adopting, Finished, Control!Running, Control!Rest,
        Control!Initializing
  <2>4. Knows(p)'
    BY <1>0, <1>6, <2>1 DEF Control!AdoptionReceipt, ProcessTypes, Knows, Finished, Adopting,
        Control!Running
  <2> QED BY <2>1, <2>2, <2>3, <2>4
<1>7. CASE Control!LookAgain(p)
  <2>1. Adopts(p) /\ receipt /\ pc[p] = "adopted"
    BY <1>0, <1>7 DEF Control!LookAgain, Knows
  <2>2. HolderMoves(p)
    BY <1>0, <1>7 DEF Control!LookAgain, HolderMoves, Positions
  <2>3. CASE UNCHANGED <<identity, marker, control, backup, receipt, secrets, runtime, cmd>>
             /\ pc' = [pc EXCEPT ![p] = "idle"]
    BY <1>0, <2>1, <2>2, <2>3 DEF FileTypes, ControlFacts, Marked, OnSecrets, Recorded, Cleared,
        Adopting, Control!Running, ProcessTypes, Knows
  <2>4. CASE /\ control' = [control EXCEPT !.runtime = @ \/ Control!Running]
             /\ UNCHANGED <<identity, marker, backup, receipt, secrets, runtime, cmd>>
             /\ pc' = [pc EXCEPT ![p] = "supplement"]
    <3> DEFINE r == control.runtime \/ Control!Running
    <3>1. r \in BOOLEAN /\ control' = [control EXCEPT !.runtime = r]
      BY <2>4
    <3>2. /\ control'.phase = control.phase /\ control'.command = "adopt"
          /\ control' \in Records /\ control'.runtime = r
          /\ control'.identity = control.identity
          /\ control' # Control!Rest /\ control' # Control!Initializing
      BY <1>a, <1>b, <2>1, <3>1 DEF Adopts
    <3>3. FileTypes' /\ ControlFacts'
      BY <1>0, <1>b, <2>1, <2>4, <3>2 DEF FileTypes, ControlFacts, Marked, OnSecrets, Recorded,
        Cleared, Adopting, Control!Running, Adopts
    <3>4. Knows(p)'
      BY <1>0, <2>1, <2>4, <3>2 DEF ProcessTypes, Knows, Adopts, Adopting, Seen,
        Control!Running
    <3> QED BY <2>1, <2>2, <3>3, <3>4
  <2> QED BY <1>7, <2>3, <2>4 DEF Control!LookAgain
<1> QED BY <1>1, <1>2, <1>3, <1>4, <1>5, <1>6, <1>7 DEF Control!Adopt

\* run_compose: the marker is there before docker is asked for anything.
LEMMA ComposeSteps ==
    ASSUME NEW p \in Operators, Sound, Control!Compose(p) \/ Control!RunDocker(p)
    PROVE  Sound'
<1> USE DEF Control!Go, Control!Leave, Control!Refuse, Control!At, Control!files,
            Control!world, Control!None, Control!NoIncompleteTransactions
<1>0. /\ ControlTypes /\ FileTypes /\ WorldTypes /\ ProcessTypes /\ ControlFacts /\ Knows(p)
      /\ PlansName /\ pc[p] \in Positions
  BY SoundHere
<1>1. CASE Control!Compose(p)
  <2>1. HolderMoves(p) /\ pc[p] # "docker"
    BY <1>0, <1>1 DEF Control!Compose, HolderMoves, Positions
  <2>2. CASE /\ identity = plan[p] /\ control = Control!Rest /\ pc' = [pc EXCEPT ![p] = "run"]
             /\ UNCHANGED <<identity, control, backup, receipt, secrets, runtime, cmd>>
             /\ \/ marker' = identity
                \/ marker' = marker /\ cmd[p] = "down"
    <3>1. FileTypes' /\ ControlFacts'
      BY <1>0, <2>2 DEF FileTypes, ControlFacts, Marked, OnSecrets, Recorded, Cleared, Adopting,
        Control!Running, Control!Rest, Control!Initializing
    <3>2. Knows(p)'
      BY <1>0, <1>1, <2>2 DEF Control!Compose, ProcessTypes, PlansName, Knows, Composes
    <3> QED BY <2>1, <3>1, <3>2, HolderMovesSound DEF HolderKeeps
  <2>3. CASE /\ UNCHANGED <<identity, marker, control, backup, receipt, secrets, runtime, cmd>>
             /\ pc' = [pc EXCEPT ![p] = "idle"]
    <3>1. HolderKeeps(p)
      BY <1>0, <2>1, <2>3 DEF HolderKeeps, FileTypes, ControlFacts, Marked, OnSecrets, Recorded,
        Cleared, Adopting, Control!Running, ProcessTypes, Knows
    <3> QED BY <3>1, HolderMovesSound
  <2> QED BY <1>1, <2>2, <2>3 DEF Control!Compose, Control!MarkerIs
<1>2. CASE Control!RunDocker(p)
  <2>1. /\ pc[p] = "run" /\ pc' = [pc EXCEPT ![p] = "docker"]
        /\ docker' = [verb |-> cmd[p], by |-> p]
        /\ UNCHANGED <<identity, marker, control, backup, receipt, secrets, runtime, holder,
                       cmd, plan, used>>
    BY <1>2 DEF Control!RunDocker
  <2>2. Composes(p)
    BY <1>0, <2>1 DEF Knows
  <2>3. /\ pc'[p] = "docker"
        /\ \A q \in Operators \ {p} : pc'[q] = pc[q] /\ pc[q] \in {"idle", "wait"}
    BY <2>1 DEF Sound, ControlTypes, ProcessTypes, Locked
  <2>4. ControlTypes'
    BY <1>0, <2>1, <2>2 DEF ControlTypes, FileTypes, WorldTypes, ProcessTypes, Positions, Composes
  <2>5. Locked'
    BY <2>1, <2>2, <2>3 DEF Sound, Locked, Composes
  <2>6. PlansName' /\ ControlFacts'
    BY <1>0, <2>1, <2>3 DEF PlansName, ControlFacts, Marked, OnSecrets, Recorded, Cleared,
        Adopting, Control!Running
  <2>7. Knows(p)'
    BY <2>1, <2>2, <2>3 DEF Knows, Composes
  <2>8. \A q \in Operators \ {p} : Knows(q)'
    BY <2>3, KnowsNothing
  <2> QED BY <2>4, <2>5, <2>6, <2>7, <2>8 DEF Sound
<1> QED BY <1>1, <1>2

\* What docker does, and what is started by hand.
LEMMA WorldSteps ==
    ASSUME Sound, ~outlived',
           Control!Docker \/ Control!PostgresInitializes \/ Control!StartOlderRelease
    PROVE  Sound'
<1> USE DEF Control!files, Control!process, Control!None
<1>0. /\ ControlTypes /\ FileTypes /\ WorldTypes /\ ProcessTypes /\ Locked /\ ControlFacts
      /\ \A q \in Operators : Knows(q)
  BY DEF Sound, ControlTypes
<1>a. ASSUME docker'.verb = "done" \/ docker' = docker, docker'.by = docker.by,
             docker' \in [verb : {"none", "up", "down", "done"}, by : Operators \cup {0}],
             docker'.verb # "none" => docker.verb # "none",
             runtime' \in [containers : BOOLEAN, data : BOOLEAN, secrets : Nat],
             UNCHANGED <<identity, marker, control, backup, receipt, secrets, holder, cmd, pc,
                         plan, used>>,
             ControlFacts', \A q \in Operators : Knows(q)'
      PROVE  Sound'
  BY <1>0, <1>a DEF Sound, ControlTypes, FileTypes, WorldTypes, ProcessTypes, Locked, PlansName
\* nothing more runs than before
<1>b. ASSUME Control!Running' => Control!Running, runtime'.secrets = runtime.secrets,
             UNCHANGED <<identity, marker, control, backup, receipt, secrets, cmd, pc>>
      PROVE  ControlFacts' /\ \A q \in Operators : Knows(q)'
  <2>1. ControlFacts'
    BY <1>0, <1>b DEF ControlFacts, Marked, OnSecrets, Recorded, Cleared, Adopting
  <2>2. ASSUME NEW q \in Operators PROVE Knows(q)'
    BY <1>0, <1>b DEF Knows, Composes, Clears, Cleared, Adopts, Adopting, Finished, Seen
  <2> QED BY <2>1, <2>2
<1>1. CASE Control!DockerWorks /\ docker.verb = "up"
  <2>1. /\ docker.by \in Operators /\ pc[docker.by] = "docker" /\ cmd[docker.by] = "up"
        /\ \A q \in Operators \ {docker.by} : pc[q] \in {"idle", "wait"}
    BY <1>0, <1>1 DEF Locked
  <2>2. control = Control!Rest /\ identity # 0 /\ marker = identity
    BY <1>0, <2>1 DEF Knows, Composes
  <2>3. /\ docker' = [docker EXCEPT !.verb = "done"]
        /\ runtime' = [runtime EXCEPT !.containers = TRUE,
                                      !.secrets = IF runtime.data THEN @ ELSE secrets]
        /\ UNCHANGED <<identity, marker, control, backup, receipt, secrets, holder, cmd, pc,
                        plan, used>>
    BY <1>1 DEF Control!DockerWorks, Control!WithContainers
  <2>4. /\ docker'.verb = "done" /\ docker'.by = docker.by
        /\ docker' \in [verb : {"none", "up", "down", "done"}, by : Operators \cup {0}]
        /\ runtime' \in [containers : BOOLEAN, data : BOOLEAN, secrets : Nat]
        /\ runtime'.secrets = secrets
    BY <1>0, <2>3 DEF WorldTypes, FileTypes, ControlFacts, OnSecrets, Control!Running
  <2>5. ControlFacts'
    BY <1>0, <2>2, <2>3, <2>4 DEF ControlFacts, Marked, OnSecrets, Recorded, Cleared, Adopting,
        Control!Rest, Control!Initializing
  <2>6. Knows(docker.by)'
    BY <1>0, <2>1, <2>2, <2>3 DEF Knows, Composes
  <2>7. \A q \in Operators : Knows(q)'
    BY <2>1, <2>3, <2>6, KnowsNothing
  <2> QED BY <1>1, <1>a, <2>3, <2>4, <2>5, <2>7
<1>2. CASE (Control!DockerWorks /\ docker.verb = "down") \/ Control!DockerFails
  <2>1. /\ docker' = [docker EXCEPT !.verb = "done"]
        /\ docker.verb # "none"
        /\ runtime' = [runtime EXCEPT !.containers = FALSE] \/ runtime' = runtime
        /\ UNCHANGED <<identity, marker, control, backup, receipt, secrets, holder, cmd, pc,
                        plan, used>>
    BY <1>2 DEF Control!DockerWorks, Control!DockerFails
  <2>2. /\ docker'.verb = "done" /\ docker'.by = docker.by
        /\ docker' \in [verb : {"none", "up", "down", "done"}, by : Operators \cup {0}]
        /\ runtime' \in [containers : BOOLEAN, data : BOOLEAN, secrets : Nat]
        /\ runtime'.secrets = runtime.secrets
        /\ Control!Running' => Control!Running
    BY <1>0, <2>1 DEF WorldTypes, Control!Running
  <2> QED BY <1>a, <1>b, <2>1, <2>2
<1>3. CASE Control!DockerReturns
  <2>1. /\ docker.by \in Operators /\ pc[docker.by] = "docker" /\ docker.by # 0
        /\ \A q \in Operators \ {docker.by} : pc[q] \in {"idle", "wait"}
    BY <1>0, <1>3, NoneIsNoOperator DEF Control!DockerReturns, Locked
  <2>2. /\ docker' = [verb |-> "none", by |-> 0] /\ holder' = 0
        /\ pc' = [pc EXCEPT ![docker.by] = "idle"]
        /\ UNCHANGED <<identity, marker, control, backup, receipt, secrets, runtime, cmd,
                        plan, used>>
    BY <1>3, <2>1 DEF Control!DockerReturns, Control!Leave
  <2>3. ControlTypes'
    BY <1>0, <2>1, <2>2 DEF ControlTypes, FileTypes, WorldTypes, ProcessTypes, Positions
  <2>4. \A q \in Operators : pc'[q] \in {"idle", "wait"} /\ (pc'[q] # "idle" => pc[q] # "idle")
    BY <1>0, <2>1, <2>2 DEF ProcessTypes
  <2>5. Locked' /\ PlansName'
    BY <2>2, <2>4 DEF Sound, Locked, PlansName
  <2>6. ControlFacts'
    BY <1>0, <2>2 DEF ControlFacts, Marked, OnSecrets, Recorded, Cleared, Adopting,
        Control!Running
  <2>7. \A q \in Operators : Knows(q)'
    BY <2>4, KnowsNothing
  <2> QED BY <2>3, <2>5, <2>6, <2>7 DEF Sound
<1>4. CASE Control!PostgresInitializes
  <2>1. /\ Control!Running /\ runtime' = [runtime EXCEPT !.data = TRUE] /\ docker' = docker
        /\ UNCHANGED <<identity, marker, control, backup, receipt, secrets, holder, cmd, pc,
                        plan, used>>
    BY <1>4 DEF Control!PostgresInitializes, Control!Running
  <2>2. /\ runtime' \in [containers : BOOLEAN, data : BOOLEAN, secrets : Nat]
        /\ runtime'.secrets = runtime.secrets
    BY <1>0, <2>1 DEF WorldTypes
  <2> QED BY <1>0, <1>a, <1>b, <2>1, <2>2 DEF WorldTypes
<1>5. CASE Control!StartOlderRelease
  <2>1. \A q \in Operators : pc[q] \in {"idle", "wait"}
    BY <1>0, <1>5, NoneIsNoOperator DEF Control!StartOlderRelease, Locked
  <2>2. /\ Adopting \/ (control = Control!Rest /\ identity = 0)
        /\ runtime' = [runtime EXCEPT !.containers = TRUE,
                                      !.secrets = IF runtime.data THEN @ ELSE secrets]
        /\ docker' = docker
        /\ UNCHANGED <<identity, marker, control, backup, receipt, secrets, holder, cmd, pc,
                        plan, used>>
    BY <1>5 DEF Control!StartOlderRelease, Control!WithContainers, Adopting
  <2>3. /\ runtime' \in [containers : BOOLEAN, data : BOOLEAN, secrets : Nat]
        /\ runtime'.secrets = secrets
    BY <1>0, <2>2 DEF WorldTypes, FileTypes, ControlFacts, OnSecrets, Control!Running
  <2>4. ControlFacts'
    BY <1>0, <2>2, <2>3 DEF ControlFacts, Marked, OnSecrets, Recorded, Cleared, Adopting,
        Control!Rest, Control!Initializing
  <2>5. \A q \in Operators : Knows(q)'
    BY <2>1, <2>2, KnowsNothing
  <2> QED BY <1>0, <1>a, <2>2, <2>3, <2>4, <2>5 DEF WorldTypes
<1> QED BY <1>1, <1>2, <1>3, <1>4, <1>5 DEF Control!Docker, Control!DockerWorks

\* The beginnings of a command, the lock, and the death of a process.
LEMMA ProcessSteps ==
    ASSUME NEW p \in Operators, Sound, ~outlived',
           \/ \E command \in Control!Commands : Control!Start(p, command)
           \/ Control!Retry(p) \/ Control!Acquire(p) \/ Control!GiveUp(p) \/ Control!Kill(p)
    PROVE  Sound'
<1> USE DEF Control!At, Control!files, Control!world, Control!None
<1>0. /\ ControlTypes /\ FileTypes /\ WorldTypes /\ ProcessTypes /\ Locked /\ ControlFacts
      /\ PlansName /\ \A q \in Operators : Knows(q)
  BY DEF Sound, ControlTypes
\* a process that has nothing to remember moves among the others
<1>a. ASSUME UNCHANGED <<identity, marker, control, backup, receipt, secrets, runtime, docker>>,
             ProcessTypes', Locked', PlansName',
             pc'[p] \in {"idle", "wait", "locked"},
             \A q \in Operators \ {p} : pc'[q] = pc[q] /\ cmd'[q] = cmd[q]
      PROVE  Sound'
  <2>1. ControlTypes'
    BY <1>0, <1>a DEF ControlTypes, FileTypes, WorldTypes
  <2>2. ControlFacts'
    BY <1>0, <1>a DEF ControlFacts, Marked, OnSecrets, Recorded, Cleared, Adopting,
        Control!Running
  <2>3. Knows(p)'
    BY <1>a, KnowsNothing
  <2>4. ASSUME NEW q \in Operators \ {p} PROVE Knows(q)'
    BY <1>0, <1>a, <2>4 DEF Knows, Composes, Clears, Cleared, Adopts, Adopting, Finished, Seen,
        Control!Running
  <2> QED BY <1>a, <2>1, <2>2, <2>3, <2>4 DEF Sound
<1>1. CASE (\E command \in Control!Commands : Control!Start(p, command)) \/ Control!Retry(p)
  <2>1. PICK command \in Control!Commands :
          /\ Control!Begin(p, command)
          /\ \/ used' = used
             \/ used' = [used EXCEPT !.runs = @ + 1,
                                     !.ids = IF Control!Issues(command) THEN @ + 1 ELSE @]
    BY <1>0, <1>1 DEF Control!Start, Control!Retry, Control!Resumable, Control!Commands
  <2>2. /\ pc[p] = "idle" /\ pc' = [pc EXCEPT ![p] = "wait"]
        /\ cmd' = [cmd EXCEPT ![p] = command]
        /\ UNCHANGED <<identity, marker, control, backup, receipt, secrets, runtime, docker,
                        holder>>
    BY <2>1 DEF Control!Begin
  <2>3. PICK planned \in Nat :
          /\ plan' = [plan EXCEPT ![p] = planned]
          /\ command \in {"prepare", "up", "down"} => planned # 0
    BY <1>0, <2>1 DEF Control!Begin, Control!Planned, Control!Commands, FileTypes, ProcessTypes
  <2>4. ProcessTypes'
    <3>1. used' \in [ids : Nat, runs : Nat, kills : Nat, faults : Nat]
      <4>1. PICK runs \in Nat, ids \in Nat : used' = used \/
                    used' = [used EXCEPT !.runs = runs, !.ids = ids]
        <5>1. used.runs + 1 \in Nat /\ used.ids + 1 \in Nat /\ used.ids \in Nat
          BY <1>0 DEF ProcessTypes
        <5>2. (IF Control!Issues(command) THEN used.ids + 1 ELSE used.ids) \in Nat
          BY <5>1
        <5> QED BY <2>1, <5>1, <5>2
      <4> QED BY <1>0, <4>1 DEF ProcessTypes
    <3>2. pc' \in [Operators -> Positions]
      BY <1>0, <2>2 DEF ProcessTypes, Positions
    <3>3. cmd' \in [Operators -> Control!Commands \cup {"none"}]
      BY <1>0, <2>2 DEF ProcessTypes
    <3> QED BY <1>0, <2>2, <2>3, <3>1, <3>2, <3>3 DEF ProcessTypes
  <2>5. /\ pc'[p] = "wait" /\ cmd'[p] = command /\ plan'[p] = planned
        /\ \A q \in Operators \ {p} : pc'[q] = pc[q] /\ cmd'[q] = cmd[q] /\ plan'[q] = plan[q]
    BY <1>0, <2>2, <2>3 DEF ProcessTypes
  <2>6. Locked'
    BY <1>0, <2>2, <2>5 DEF Locked
  <2>7. PlansName'
    BY <1>0, <2>3, <2>5 DEF PlansName
  <2> QED BY <1>a, <2>2, <2>4, <2>5, <2>6, <2>7
<1>2. CASE Control!Acquire(p) \/ Control!GiveUp(p)
  <2>1. /\ pc[p] = "wait" /\ docker' = docker
        /\ \/ holder = 0 /\ holder' = p /\ pc' = [pc EXCEPT ![p] = "locked"]
           \/ holder' = holder /\ pc' = [pc EXCEPT ![p] = "idle"]
        /\ UNCHANGED <<identity, marker, control, backup, receipt, secrets, runtime, docker,
                        cmd, plan, used>>
    BY <1>2 DEF Control!Acquire, Control!GiveUp
  <2>2. /\ pc'[p] \in {"idle", "locked"} /\ (pc'[p] = "locked" => holder' = p)
        /\ \A q \in Operators \ {p} : pc'[q] = pc[q]
    BY <1>0, <2>1 DEF ProcessTypes
  <2>3. ProcessTypes'
    BY <1>0, <2>1 DEF ProcessTypes, Positions
  <2>4. Locked'
    <3>1. \A q \in Operators : pc'[q] \in {"idle", "wait"} \/ holder' = q
      BY <1>0, <2>1, <2>2, NoneIsNoOperator DEF Locked
    <3>2. docker.verb # "none" => docker.by # p
      BY <1>0, <2>1 DEF Locked
    <3> QED BY <1>0, <2>1, <2>2, <3>1, <3>2 DEF Locked
  <2>5. PlansName'
    BY <1>0, <2>1, <2>2 DEF PlansName
  <2> QED BY <1>a, <2>1, <2>2, <2>3, <2>4, <2>5
<1>3. CASE Control!Kill(p)
  <2>1. /\ holder = p /\ holder' = 0 /\ pc' = [pc EXCEPT ![p] = "idle"] /\ docker' = docker
        /\ docker.by # p /\ used' = [used EXCEPT !.kills = @ + 1]
        /\ UNCHANGED <<identity, marker, control, backup, receipt, secrets, runtime, docker,
                        cmd, plan>>
    BY <1>3 DEF Control!Kill, Control!Leave
  <2>2. /\ pc'[p] = "idle"
        /\ \A q \in Operators \ {p} : pc'[q] = pc[q] /\ pc[q] \in {"idle", "wait"}
    BY <1>0, <2>1 DEF ProcessTypes, Locked
  <2>3. ProcessTypes'
    BY <1>0, <2>1 DEF ProcessTypes, Positions
  <2>4. docker.verb = "none"
    BY <1>0, <2>1, <2>2 DEF Locked
  <2>5. Locked'
    BY <2>1, <2>2, <2>4 DEF Locked
  <2>6. PlansName'
    <3>1. PlansName
      BY <1>0
    <3>2. \A q \in Operators : pc'[q] # "idle" => pc[q] # "idle"
      BY <2>2
    <3> QED BY <2>1, <3>1, <3>2 DEF PlansName
  <2> QED BY <1>a, <2>1, <2>2, <2>3, <2>5, <2>6
<1> QED BY <1>1, <1>2, <1>3

-----------------------------------------------------------------------------
\* A docker compose that went on is not forgotten.
LEMMA OutlivedStays == Control!Next /\ ~outlived' => ~outlived
<1> SUFFICES ASSUME Control!Next PROVE outlived' = outlived \/ outlived' = TRUE
  OBVIOUS
<1> USE DEF Control!world
<1>1. CASE \E p \in Operators : Control!Step(p)
  <2>1. PICK p \in Operators : Control!Step(p)
    BY <1>1
  <2>2. CASE \/ Control!Prepare(p) \/ Control!Rotate(p) \/ Control!Clean(p)
             \/ Control!Recover(p) \/ Control!Initialize(p) \/ Control!PublishIdentity(p)
             \/ Control!FinishInitialization(p) \/ Control!Execute(p)
    BY <2>2 DEF Control!Prepare, Control!Rotate, Control!Clean, Control!Recover,
        Control!Initialize, Control!PublishIdentity, Control!FinishInitialization,
        Control!Execute
  <2>3. CASE Control!Compose(p) \/ Control!RunDocker(p) \/ Control!Writing(p)
    BY <2>3 DEF Control!Compose, Control!RunDocker, Control!Writing, Control!SelectControl,
        Control!WriteRecord, Control!RemoveFile, Control!RemoveDirectory
  <2>4. CASE Control!Clear(p)
    BY <2>4 DEF Control!Clear, Control!Check, Control!Gates, Control!MoveMarker,
        Control!RecordMoved, Control!WriteReceipt, Control!RecordReceipt, Control!UnlinkBackup,
        Control!RecordCleared, Control!Advance
  <2>5. CASE Control!Adopt(p)
    BY <2>5 DEF Control!Adopt, Control!Examine, Control!MarkFirst, Control!RecordMarked,
        Control!MarkAgain, Control!AdoptIdentity, Control!RecordAdopted, Control!MarkLast,
        Control!AdoptionReceipt, Control!LookAgain, Control!Supplement, Control!Mark,
        Control!Advance
  <2> QED BY <2>1, <2>2, <2>3, <2>4, <2>5 DEF Control!Step
<1>2. CASE \E p \in Operators :
             \/ \E command \in Control!Commands : Control!Start(p, command)
             \/ Control!Retry(p) \/ Control!Acquire(p) \/ Control!GiveUp(p)
             \/ Control!Kill(p)
  BY <1>2 DEF Control!Start, Control!Retry, Control!Begin, Control!Acquire, Control!GiveUp,
        Control!Kill
<1>3. CASE Control!Docker \/ Control!PostgresInitializes \/ Control!StartOlderRelease
  BY <1>3 DEF Control!Docker, Control!DockerWorks, Control!DockerFails, Control!DockerReturns,
        Control!PostgresInitializes, Control!StartOlderRelease
<1> QED BY <1>1, <1>2, <1>3 DEF Control!Next

\* What was started is marked, and runs on the secrets on disk, until a docker
\* compose outlives its wrapper.
LEMMA ControlInvHolds == DeploymentSpec => []ControlInv
<1>1. DeploymentInit => ControlInv
  <2> SUFFICES ASSUME DeploymentInit PROVE Sound
    BY DEF ControlInv
  <2> USE DEF Control!None
  <2>1. Control!Init
    BY DEF DeploymentInit
  <2>2. /\ identity \in {0, 1} /\ marker \in {0, identity} /\ control = Control!Rest
        /\ backup = 0 /\ receipt = FALSE /\ secrets = 0 /\ holder = 0
        /\ runtime \in [containers : BOOLEAN, data : BOOLEAN, secrets : {0}]
        /\ identity # 0 /\ marker = 0 => ~Control!Running
        /\ docker = [verb |-> "none", by |-> 0]
        /\ cmd = [p \in Operators |-> "none"] /\ pc = [p \in Operators |-> "idle"]
        /\ plan = [p \in Operators |-> 0]
        /\ used = [ids |-> identity, runs |-> 0, kills |-> 0, faults |-> 0]
    BY <2>1 DEF Control!Init
  <2>3. FileTypes
    <3>1. control.command # "clear" /\ control.command # "adopt"
      BY <2>2 DEF Control!Rest
    <3>2. /\ identity \in Nat /\ marker \in Nat /\ backup \in Nat
          /\ secrets \in Nat /\ receipt \in BOOLEAN
      <4>1. receipt \in BOOLEAN
        BY <2>2
      <4>2. identity \in {0, 1} /\ marker \in {0, identity} /\ backup = 0 /\ secrets = 0
        BY <2>2
      <4> QED BY <4>1, <4>2
    <3>3. control = Control!Rest
      BY <2>2
    <3> QED BY <3>1, <3>2, <3>3, Zenon DEF FileTypes
  <2>4. WorldTypes /\ ProcessTypes
    BY <2>2 DEF WorldTypes, ProcessTypes, Positions
  <2>5. Locked /\ PlansName
    BY <2>2 DEF Locked, PlansName
  <2>6. ControlFacts
    BY <2>2 DEF ControlFacts, Marked, OnSecrets, Recorded, Cleared, Adopting, Control!Running,
        Control!Rest, Control!Initializing
  <2>7. ASSUME NEW q \in Operators PROVE Knows(q)
    BY <2>2 DEF Knows
  <2> QED BY <2>3, <2>4, <2>5, <2>6, <2>7 DEF Sound, ControlTypes
<1>2. ControlInv /\ [DeploymentNext]_<<part, everything>> => ControlInv'
  <2> SUFFICES ASSUME ControlInv, [DeploymentNext]_<<part, everything>>, ~outlived'
               PROVE  Sound'
    BY DEF ControlInv
  <2>1. CASE Control!Next
    <3>1. Sound
      BY <2>1, OutlivedStays DEF ControlInv
    <3>2. CASE Control!Docker \/ Control!PostgresInitializes \/ Control!StartOlderRelease
      BY <3>1, <3>2, WorldSteps
    <3>3. CASE \E p \in Operators : Control!Step(p)
      BY <3>1, <3>3, PreparationSteps, ComposeSteps, WritingSteps, ClearSteps, AdoptSteps
         DEF Control!Step
    <3>4. CASE \E p \in Operators :
                 \/ \E command \in Control!Commands : Control!Start(p, command)
                 \/ Control!Retry(p) \/ Control!Acquire(p) \/ Control!GiveUp(p)
                 \/ Control!Kill(p)
      BY <3>1, <3>4, ProcessSteps
    <3> QED BY <2>1, <3>2, <3>3, <3>4 DEF Control!Next
  <2>2. CASE UNCHANGED commands
    BY <2>2 DEF commands, ControlInv, Sound, ControlTypes, FileTypes, WorldTypes, ProcessTypes,
        Locked, PlansName, ControlFacts, Marked, OnSecrets, Recorded, Knows, Composes, Clears,
        Cleared, Adopts, Adopting, Finished, Seen, Control!Running
  <2> QED BY <2>1, <2>2 DEF DeploymentNext, everything
<1> QED BY <1>1, <1>2, PTL DEF DeploymentSpec

\* run_compose, adopt_existing, clear_start_marker, _assert_rotation_allowed:
\* whatever was planned before the lock and wherever a command was interrupted,
\* what runs is marked with the identity in force, unless an adoption is under
\* way, and runs on the secrets on disk.
THEOREM StartedMarked == DeploymentSpec => []StartedIsMarked
<1>1. ControlInv => StartedIsMarked
  BY DEF ControlInv, Sound, ControlFacts, Marked, OnSecrets, StartedIsMarked,
        Control!StartedIsMarked, Control!RunsOnItsSecrets, Control!Rest, Control!None
<1> QED BY <1>1, ControlInvHolds, PTL

-----------------------------------------------------------------------------
(* The schema of the database.                                             *)

\* What a migrator does inside its transaction is behind the lock.
Migrating == {"classify", "upgrade", "done", "release"}
SchemaStages ==
    {"off", "lock", "ok", "failed", "create", "look upload", "upload", "look embedding",
     "embedding", "look evaluation", "evaluation", "counter", "serving"} \cup Migrating
DatabaseTypes ==
    /\ exact \subseteq Schema!UpTo(Schema!HeadRevision)
    /\ version \in [table : BOOLEAN, sound : BOOLEAN, rows : SUBSET (0..9)]
    /\ counter \in Nat /\ sequence \in Seq(Nat)
    /\ \E b \in Nat : \A i \in DOMAIN sequence : sequence[i] <= b
    /\ unrouted \in BOOLEAN
    /\ ~version.table => version.rows = {}
StageTypes ==
    /\ stage \in [Migrators \cup Apps -> SchemaStages]
    /\ missing \in [Apps -> SUBSET Schema!UpTo(Schema!HeadRevision)]
    /\ work \in [Migrators -> [items : SUBSET Schema!UpTo(Schema!HeadRevision), rev : 0..9]]
    /\ session \in Migrators \cup {Schema!Nobody} /\ failures \in Nat
    /\ \A m \in Migrators : stage[m] \in Migrating => session = m
    /\ \A m \in Migrators : stage[m] # "upgrade" => work[m] = Schema!Idle
SchemaTypes == DatabaseTypes /\ StageTypes

\* An item that is odd was found in another form or was healed, when all the
\* tables of the baseline were there.
Healed == Schema!UploadColumns \cup Schema!EvaluationColumns \cup {Schema!SequenceIndex}
OddItems ==
    /\ odd \subseteq [item : Healed, how : Schema!Fingerprinted \cup Schema!Catalogued]
    /\ odd # {} => Schema!BaselineTables \subseteq Schema!Present
    /\ \A o \in odd : o.item \notin exact

\* An application that has created tables has all of them, and numbers the runs.
Serves == {"counter", "serving"}
Healing == {"look upload", "upload", "look embedding", "embedding", "look evaluation",
            "evaluation"} \cup Serves
Applications ==
    \A a \in Apps :
        /\ stage[a] = "create" => Schema!Tables \subseteq Schema!Present \cup missing[a]
        /\ stage[a] = "create" => missing[a] \subseteq Schema!Tables
        /\ stage[a] = "upload" => missing[a] \subseteq Schema!UploadColumns
        /\ stage[a] = "embedding" => missing[a] \subseteq Schema!EmbeddingColumn
        /\ stage[a] = "evaluation" => missing[a] \subseteq Schema!EvaluationColumns \cup
               {Schema!SequenceIndex}
        /\ stage[a] \in Healing => Schema!Tables \subseteq Schema!Present
        /\ stage[a] \in Serves => ~Schema!Doubtful
        /\ stage[a] = "serving" => Schema!CounterValid

\* What a migrator has done in its transaction: every revision after the one
\* that the database was at.
Transacts ==
    \A m \in Migrators :
        /\ stage[m] = "upgrade" =>
             /\ Schema!UpTo(work[m].rev) \subseteq exact \cup work[m].items
             /\ work[m].items # {} => Schema!Revision[work[m].rev] \subseteq work[m].items
             /\ work[m].items = {} /\ work[m].rev = Schema!HeadRevision =>
                    version.rows = {Schema!HeadRevision}
        /\ "evaluation_counters" \in work[m].items => "evaluation_counters" \notin Schema!Present
        /\ work[m].items \cap Healed # {} => "evaluation_counters" \in work[m].items
        /\ stage[m] \in {"done", "ok"} => version.rows = {Schema!HeadRevision}

\* A database that was found out of order: what is wrong with it stays, until
\* an application has added the tables of later revisions.
Unlike ==
    \/ Schema!Tables \subseteq Schema!Present \/ "structured_previews" \in Schema!Present
    \/ ~(Schema!EmbeddingColumn \subseteq Schema!Present)
    \/ \E o \in odd : o.item = Schema!SequenceIndex
    \/ counter = 1 /\ 1 \in Schema!Range(sequence)
Condemned ==
    \/ version.table /\ ~Schema!Readable
    \/ Schema!Present # {} /\ Unlike /\ (version.table => version.rows = {1})
Disordered ==
    origin \in {"drifted", "legacy"} =>
        /\ Condemned
        /\ \A m \in Migrators : stage[m] \notin {"upgrade", "done", "ok"}
        /\ origin = "legacy" => ~version.table
        /\ version.rows # {Schema!HeadRevision}

\* A database that was found in order, as long as no application was started
\* and nothing failed.
Undisturbed == failures = 0 /\ \A a \in Apps : stage[a] = "off"
InOrder ==
    /\ odd = {}
    /\ IF version.table
       THEN version.sound /\ \E r \in 1..Schema!HeadRevision : version.rows = {r} /\
       exact = Schema!UpTo(r)
       ELSE exact \in {{}, Schema!Baseline}
    /\ exact = {} => sequence = <<>>
    /\ exact = Schema!Baseline => Schema!CounterValid
    /\ \A m \in Migrators :
         /\ stage[m] \notin {"release", "failed"}
         /\ stage[m] = "upgrade" => exact \cup work[m].items = Schema!UpTo(work[m].rev)
Ordered == origin \notin {"drifted", "legacy"} /\ Undisturbed => InOrder

\* A managed database that was found in order has everything up to its revision.
Whole ==
    version.table /\ origin # "drifted" =>
        \E r \in 1..Schema!HeadRevision : version.rows = {r} /\ Schema!UpTo(r) \subseteq exact
Routed == version.rows = {Schema!HeadRevision} => ~unrouted

SchemaInv ==
    /\ SchemaTypes /\ OddItems /\ Applications /\ Transacts
    /\ Disordered /\ Ordered /\ Whole /\ Routed

\* What the proofs use of the revisions: each is of items that no earlier one
\* has, and what is known of some of them.
Revisions == 1..Schema!HeadRevision
LEMMA RevisionData ==
  /\ Schema!HeadRevision = 9
  /\ Schema!Revision[1] = Schema!Baseline /\ Schema!Revision[9] = Schema!RouteAudit
  /\ DOMAIN Schema!Revision = 1..9
  BY DEF Schema!HeadRevision, Schema!Revision

LEMMA RevisionsAccumulate ==
  /\ Schema!UpTo(0) = {} /\ Schema!UpTo(1) = Schema!Baseline
  /\ \A r \in 0..8 : Schema!UpTo(r + 1) = Schema!UpTo(r) \cup Schema!Revision[r + 1]
  /\ \A r \in 0..9 : Schema!UpTo(r) \subseteq Schema!UpTo(Schema!HeadRevision)
  /\ \A r \in 1..9 : Schema!Revision[r] \subseteq Schema!UpTo(r)
<1> USE RevisionData
<1>1. Schema!UpTo(0) = {}
  BY DEF Schema!UpTo
<1>2. Schema!UpTo(1) = Schema!Baseline
  BY DEF Schema!UpTo
<1>3. ASSUME NEW r \in 0..8 PROVE Schema!UpTo(r + 1) = Schema!UpTo(r) \cup Schema!Revision[r + 1]
  BY DEF Schema!UpTo
<1>4. ASSUME NEW r \in 0..9 PROVE Schema!UpTo(r) \subseteq Schema!UpTo(Schema!HeadRevision)
  BY DEF Schema!UpTo
<1>5. ASSUME NEW r \in 1..9 PROVE Schema!Revision[r] \subseteq Schema!UpTo(r)
  BY DEF Schema!UpTo
<1> QED
  BY <1>1, <1>2, <1>3, <1>4, <1>5

LEMMA RevisionsAreNew == \A r \in 0..8 : Schema!Revision[r + 1] \cap Schema!UpTo(r) = {}
<1>1. \A i, j \in 1..9 : i < j => Schema!Revision[i] \cap Schema!Revision[j] = {}
  BY SMTT(90) DEF Schema!Revision, Schema!Baseline, Schema!BaselineTables, Schema!UploadColumns,
     Schema!EmbeddingColumn, Schema!EvaluationColumns,
     Schema!SequenceIndex, Schema!Structured, Schema!Previews, Schema!JobSequence,
     Schema!Retrieval, Schema!ShadowLabels, Schema!Fingerprint,
     Schema!WordFacts, Schema!RouteAudit
<1> QED
  BY <1>1 DEF Schema!UpTo

LEMMA ItemData ==
  /\ "evaluation_counters" \in Schema!BaselineTables /\ "evaluation_counters" \notin Healed
  /\ Schema!BaselineTables \subseteq Schema!Baseline /\ Healed \subseteq Schema!Baseline
  /\ Schema!EmbeddingColumn \subseteq Schema!Baseline /\
         Schema!EmbeddingColumn \cap Schema!BaselineTables = {}
  /\ Schema!EmbeddingColumn \cap Healed = {} /\ "structured_previews" \notin Schema!Baseline
  /\ Schema!BaselineTables \cap Healed = {}
  /\ Schema!SequenceIndex \in Healed /\ Schema!EvaluationColumns \subseteq Healed
  /\ Schema!UploadColumns \subseteq Healed /\
         Schema!UploadColumns \cap Schema!EvaluationColumns = {}
  /\ Schema!SequenceIndex \notin Schema!UploadColumns \cup Schema!EvaluationColumns
  /\ Schema!EmbeddingColumn # {} /\ Schema!BaselineTables # {}
  BY SMTT(60) DEF Schema!Baseline, Schema!BaselineTables, Schema!UploadColumns,
     Schema!EmbeddingColumn, Schema!EvaluationColumns,
     Schema!SequenceIndex, Healed

LEMMA LaterRevisions ==
   \A r \in 2..9 : Schema!Revision[r] \cap Healed = {} /\
   "evaluation_counters" \notin Schema!Revision[r]
  BY SMTT(60) DEF Schema!Revision,  Schema!BaselineTables, Schema!UploadColumns,
     Schema!EvaluationColumns,
     Schema!SequenceIndex, Schema!Structured, Schema!Previews, Schema!JobSequence,
     Schema!Retrieval, Schema!ShadowLabels, Schema!Fingerprint,
     Schema!WordFacts, Schema!RouteAudit, Healed

LEMMA TableData ==
  /\ Schema!BaselineTables \subseteq Schema!Tables
  /\ "structured_previews" \in Schema!Tables
  /\ \A t \in DOMAIN Schema!ColumnsOf : Schema!ColumnsOf[t] \subseteq Schema!UpTo(Schema!HeadRevision)
  /\ \A t \in DOMAIN Schema!ColumnsOf \ Schema!BaselineTables : Schema!ColumnsOf[t] \cap Healed = {}
  /\ \A t \in DOMAIN Schema!ColumnsOf : "evaluation_counters" \notin Schema!ColumnsOf[t]
  /\ Schema!Tables \subseteq Schema!UpTo(Schema!HeadRevision)
<1>1. DOMAIN Schema!ColumnsOf = {"evaluation_cases", "evaluation_runs", "knowledge_sources",
        "knowledge_chunks", "structured_ingestion_jobs", "retrieval_shadow_comparisons",
        "retrieval_publications", "agent_runs"}
  BY DEF Schema!ColumnsOf
<1>2. \A r \in 1..9 : Schema!Revision[r] \subseteq Schema!UpTo(Schema!HeadRevision)
  BY RevisionData DEF Schema!UpTo
<1>3. Schema!Columns = Schema!UploadColumns \cup Schema!EmbeddingColumn \cup
          Schema!EvaluationColumns \cup {Schema!SequenceIndex}
        \cup {"knowledge_chunks.metadata"} \cup Schema!JobSequence \cup Schema!ShadowLabels
        \cup Schema!Fingerprint \cup Schema!RouteAudit
  BY <1>1, SMTT(60) DEF Schema!Columns, Schema!ColumnsOf, Schema!EvaluationColumns
<1>4. Schema!Columns \cap Schema!BaselineTables = {} /\ "structured_previews" \notin Schema!Columns
      /\ "evaluation_counters" \notin Schema!Columns
  BY <1>3, SMTT(60) DEF Schema!BaselineTables, Schema!UploadColumns, Schema!EmbeddingColumn,
     Schema!EvaluationColumns,
     Schema!SequenceIndex, Schema!JobSequence, Schema!ShadowLabels, Schema!Fingerprint,
     Schema!RouteAudit
<1>5. Schema!Baseline \cup Schema!Previews \cup Schema!JobSequence \cup Schema!Retrieval \cup
          Schema!ShadowLabels \cup Schema!Fingerprint
        \cup Schema!RouteAudit \subseteq Schema!UpTo(Schema!HeadRevision)
  BY <1>2, SMTT(60) DEF Schema!Revision
<1>6. Schema!Columns \subseteq Schema!UpTo(Schema!HeadRevision)
  BY <1>3, <1>5 DEF Schema!Baseline, Schema!Retrieval
<1>7. \A t \in DOMAIN Schema!ColumnsOf \ Schema!BaselineTables : Schema!ColumnsOf[t] \cap Healed =
          {}
  BY <1>1, SMTT(60) DEF Schema!ColumnsOf, Schema!BaselineTables, Healed, Schema!UploadColumns,
     Schema!EvaluationColumns,
     Schema!SequenceIndex, Schema!JobSequence, Schema!ShadowLabels, Schema!Fingerprint
<1>8. \A t \in DOMAIN Schema!ColumnsOf : Schema!ColumnsOf[t] \subseteq Schema!Columns
  BY DEF Schema!Columns
<1>9. Schema!BaselineTables \subseteq Schema!Tables /\ "structured_previews" \in Schema!Tables
  BY <1>4, <1>5 DEF Schema!Tables, Schema!Baseline, Schema!Previews
<1> QED
  BY <1>4, <1>6, <1>7, <1>8, <1>9 DEF Schema!Tables

LEMMA WaysData ==
  {"order", "default", "nullable", "not unique", "invalid",
  "unlogged"} \subseteq Schema!Fingerprinted \cup Schema!Catalogued
  BY DEF Schema!Fingerprinted, Schema!Catalogued, Schema!ColumnAspects, Schema!IndexAspects,
     Schema!ConstraintAspects, Schema!IndexCatalogAspects, Schema!TableCatalogAspects

\* A set of natural numbers with a bound has a largest one.
LEMMA LargestExists ==
  ASSUME NEW S \in SUBSET Nat, S # {}, NEW b \in Nat, \A x \in S : x <= b
  PROVE  Schema!Max(S) \in S /\ \A x \in S : x <= Schema!Max(S)
<1> DEFINE Less == OpToRel(<, Nat)
           B == {n \in Nat : \A x \in S : x <= n}
<1>1. IsWellFoundedOn(Less, Nat)
  BY NatLessThanWellFounded
<1>2. \A m, n \in Nat : <<m, n>> \in Less <=> m < n
  BY DEF OpToRel
<1> HIDE DEF Less
<1>3. B \subseteq Nat /\ B # {}
  OBVIOUS
<1>4. PICK m \in B : \A n \in B : ~(<<n, m>> \in Less)
  BY <1>1, <1>3, WFMin
<1>5. m \in S
  <2> SUFFICES ASSUME m \notin S PROVE FALSE
    OBVIOUS
  <2>1. m \in Nat /\ \A x \in S : x \in Nat /\ x < m
    BY <1>4
  <2>2. \E x \in S : 0 <= x /\ x < m
    <3>1. PICK x \in S : TRUE
      OBVIOUS
    <3> QED
      BY <2>1, <3>1
  <2>3. m - 1 \in Nat /\ m - 1 < m /\ \A y \in S : y <= m - 1
    BY <2>1, <2>2
  <2> QED
    BY <1>2, <1>4, <2>3
<1>6. \E x \in S : \A y \in S : x >= y
  BY <1>4, <1>5
<1> QED
  BY <1>6 DEF Schema!Max

\* The counter is valid when it is larger than every number given.
LEMMA CounterIsAhead ==
  SchemaTypes =>
    (Schema!CounterValid <=> counter > 0 /\ \A i \in DOMAIN sequence : counter > sequence[i])
<1> SUFFICES ASSUME SchemaTypes
             PROVE  Schema!CounterValid <=>
                      counter > 0 /\ \A i \in DOMAIN sequence : counter > sequence[i]
  OBVIOUS
<1> DEFINE S == {0} \cup Schema!Range(sequence)
<1>1. counter \in Nat /\ \A i \in DOMAIN sequence : sequence[i] \in Nat
  BY DEF SchemaTypes, DatabaseTypes
<1>2. PICK b \in Nat : \A i \in DOMAIN sequence : sequence[i] <= b
  BY DEF SchemaTypes, DatabaseTypes
<1>3. S \in SUBSET Nat /\ S # {} /\ \A x \in S : x <= b
  BY <1>1, <1>2 DEF Schema!Range
<1>4. Schema!Max(S) \in S /\ \A x \in S : x <= Schema!Max(S)
  <2> HIDE DEF S
  <2> QED
    BY <1>3, LargestExists
<1>5. Schema!CounterValid <=> counter > Schema!Max(S)
  BY DEF Schema!CounterValid
<1>6. 0 \in S /\ \A i \in DOMAIN sequence : sequence[i] \in S
  BY DEF Schema!Range
<1>7. \A x \in S : x = 0 \/ \E i \in DOMAIN sequence : x = sequence[i]
  BY DEF Schema!Range
<1> QED
  <2> DEFINE m == Schema!Max(S)
  <2> HIDE DEF S
  <2>1. m \in S /\ m \in Nat /\ \A x \in S : x <= m
    BY <1>3, <1>4
  <2>2. Schema!CounterValid <=> counter > m
    BY <1>5
  <2>3. m = 0 \/ \E i \in DOMAIN sequence : m = sequence[i]
    BY <1>7, <2>1
  <2>4. 0 <= m /\ \A i \in DOMAIN sequence : sequence[i] <= m
    BY <1>6, <2>1
  <2> HIDE DEF m
  <2> QED
    BY <1>1, <2>1, <2>2, <2>3, <2>4

\* It is raised to what the next run may take.
LEMMA CounterIsLarge ==
  ASSUME SchemaTypes
  PROVE  LET next == Schema!Max({1, counter} \cup {s + 1 : s \in Schema!Range(sequence)})
         IN  next \in Nat /\ next >= 1 /\ \A i \in DOMAIN sequence : next > sequence[i]
<1> DEFINE S == {1, counter} \cup {s + 1 : s \in Schema!Range(sequence)}
<1>1. counter \in Nat /\ \A i \in DOMAIN sequence : sequence[i] \in Nat
  BY DEF SchemaTypes, DatabaseTypes
<1>2. PICK b \in Nat : \A i \in DOMAIN sequence : sequence[i] <= b
  BY DEF SchemaTypes, DatabaseTypes
<1>3. \A x \in S : x \in {1, counter} \/ \E i \in DOMAIN sequence : x = sequence[i] + 1
  BY DEF Schema!Range
<1>4. S \in SUBSET Nat /\ S # {} /\ \A x \in S : x <= b + counter + 1
  <2>1. b \in Nat /\ 1 \in Nat /\ 1 <= b + counter + 1 /\ counter <= b + counter + 1
    BY <1>1
  <2>2. \A i \in DOMAIN sequence : sequence[i] + 1 \in Nat /\ sequence[i] + 1 <= b + counter + 1
    BY <1>1, <1>2
  <2>3. 1 \in S
    OBVIOUS
  <2> HIDE DEF S
  <2>4. ASSUME NEW x \in S PROVE x \in Nat /\ x <= b + counter + 1
    BY <1>1, <1>3, <2>1, <2>2
  <2> QED
    BY <2>3, <2>4
<1>5. 1 \in S /\ \A i \in DOMAIN sequence : sequence[i] + 1 \in S
  BY DEF Schema!Range
<1> HIDE DEF S
<1>6. b + counter + 1 \in Nat
  BY <1>1, <1>2
<1>7. Schema!Max(S) \in S /\ \A x \in S : x <= Schema!Max(S)
  BY <1>4, <1>6, LargestExists
<1>8. Schema!Max(S) \in Nat
  BY <1>4, <1>7
<1> DEFINE top == Schema!Max(S)
<1> HIDE DEF top
<1>9. top \in Nat /\ top >= 1 /\ \A i \in DOMAIN sequence : top >= sequence[i] + 1
  BY <1>5, <1>7, <1>8 DEF top
<1>10. top \in Nat /\ top >= 1 /\ \A i \in DOMAIN sequence : top > sequence[i]
  BY <1>1, <1>9
<1> QED
  BY <1>10 DEF top, S

\* The revision that a database is at, when it is at one or at none.
LEMMA CurrentIs ==
  ASSUME NEW r \in 1..9, version.rows = {r}
  PROVE  Schema!CurrentRevision = r
<1> DEFINE S == {0} \cup {r}
<1>1. S \in SUBSET Nat /\ S # {} /\ r \in Nat /\ \A x \in S : x <= r
  OBVIOUS
<1>2. r \in S
  OBVIOUS
<1> HIDE DEF S
<1>3. Schema!Max(S) \in S /\ \A x \in S : x <= Schema!Max(S)
  BY <1>1, LargestExists
<1>4. Schema!Max(S) <= r /\ r <= Schema!Max(S) /\ Schema!Max(S) \in Nat
  BY <1>1, <1>2, <1>3
<1>5. Schema!Max(S) = r
  BY <1>4
<1> QED
  BY <1>5 DEF S, Schema!CurrentRevision

LEMMA CurrentNone ==
  ASSUME version.rows = {}
  PROVE  Schema!CurrentRevision = 0
<1> DEFINE S == {0} \cup {}
<1>1. S \in SUBSET Nat /\ S # {} /\ \A x \in S : x <= 0
  OBVIOUS
<1> HIDE DEF S
<1>2. Schema!Max(S) \in S
  BY <1>1, LargestExists
<1>3. Schema!Max(S) = 0
  BY <1>2 DEF S
<1> QED
  BY <1>3 DEF S, Schema!CurrentRevision

\* Most steps leave the database as it is.
Rests == UNCHANGED <<origin, exact, odd, version, sequence, counter, unrouted>>
LEMMA MigratorRests ==
  ASSUME NEW m \in Migrators,
         \/ Schema!StartMigrator(m) \/ Schema!TakeLock(m) \/ Schema!Classify(m) \/
                Schema!ApplyRevision(m)
         \/ Schema!FailRevision(m) \/ Schema!ReleaseLock(m)
  PROVE  Rests
  BY Zenon DEF Rests, Schema!database, Schema!StartMigrator, Schema!TakeLock, Schema!Classify,
     Schema!ApplyRevision, Schema!FailRevision,
     Schema!ReleaseLock

LEMMA ApplicationRests ==
  ASSUME NEW a \in Apps, Schema!StartApplication(a) \/ Schema!Look(a) \/ Schema!FailApplication(a)
  PROVE  Rests
  BY Zenon DEF Rests, Schema!database, Schema!StartApplication, Schema!Look, Schema!FailApplication

LEMMA DeathRests ==
  ASSUME NEW p \in Migrators \cup Apps, Schema!KillProcess(p)
  PROVE  Rests
  BY Zenon DEF Rests, Schema!database, Schema!KillProcess

\* The others write to it.
LEMMA StepCases ==
  ASSUME Schema!Next
  PROVE  \/ Rests
         \/ \E m \in Migrators : Schema!CommitMigration(m)
         \/ \E a \in Apps : \/ Schema!CreateTables(a) \/ Schema!HealUpload(a) \/ Schema!HealEmbedding(a)
                            \/ Schema!HealEvaluation(a) \/ Schema!HealCounter(a)
         \/ Schema!RecordRun \/ Schema!OldAnswer
  BY MigratorRests, ApplicationRests, DeathRests, SMTT(60) DEF Schema!Next, Schema!Work,
     Schema!Migrate, Schema!Heal

\* What they write has the right types, and nothing that is there goes away.
LEMMA DatabaseStep ==
  ASSUME SchemaTypes, Applications, Schema!Next
  PROVE  DatabaseTypes' /\ Schema!Present \subseteq Schema!Present'
<1> USE DEF SchemaTypes, DatabaseTypes
<1>1. CASE Rests
  BY <1>1 DEF Rests, Schema!Present
<1>2. ASSUME NEW m \in Migrators, Schema!CommitMigration(m)
      PROVE  DatabaseTypes' /\ Schema!Present \subseteq Schema!Present'
  <2>1. work[m] \in [items : SUBSET Schema!UpTo(Schema!HeadRevision), rev : 0..9]
    BY DEF StageTypes
  <2>2. exact' = exact \cup work[m].items /\ odd' = odd /\ sequence' = sequence
    BY <1>2 DEF Schema!CommitMigration, Schema!Committed
  <2>3. version' = [table |-> TRUE, sound |-> TRUE, rows |-> {work[m].rev}]
    BY <1>2 DEF Schema!CommitMigration, Schema!Committed
  <2>4. counter' \in {1, counter}
    BY <1>2 DEF Schema!CommitMigration, Schema!Committed
  <2>5. unrouted' \in BOOLEAN
    BY <1>2 DEF Schema!CommitMigration, Schema!Committed
  <2> QED
    BY <2>1, <2>2, <2>3, <2>4, <2>5 DEF Schema!Present
<1>3. ASSUME NEW a \in Apps, Schema!CreateTables(a)
      PROVE  DatabaseTypes' /\ Schema!Present \subseteq Schema!Present'
  <2>1. exact' = exact \cup Schema!WithColumns(missing[a])
        /\ UNCHANGED <<odd, version, sequence, counter, unrouted>>
    BY <1>3 DEF Schema!CreateTables
  <2>2. missing[a] \subseteq Schema!Tables
    BY <1>3 DEF Schema!CreateTables, Schema!At, Applications
  <2>3. Schema!WithColumns(missing[a]) \subseteq Schema!UpTo(Schema!HeadRevision)
    BY <2>2, TableData DEF Schema!WithColumns
  <2> QED
    BY <2>1, <2>3 DEF Schema!Present
<1>4. ASSUME NEW a \in Apps, Schema!HealUpload(a)
      PROVE  DatabaseTypes' /\ Schema!Present \subseteq Schema!Present'
  <2>1. odd \subseteq odd' /\ UNCHANGED <<exact, version, sequence, counter, unrouted>>
    BY <1>4 DEF Schema!HealUpload
  <2> QED
    BY <2>1 DEF Schema!Present
<1>5. ASSUME NEW a \in Apps, Schema!HealEmbedding(a)
      PROVE  DatabaseTypes' /\ Schema!Present \subseteq Schema!Present'
  <2>1. exact' = exact \cup missing[a] /\ UNCHANGED <<odd, version, sequence, counter, unrouted>>
    BY <1>5 DEF Schema!HealEmbedding
  <2>2. missing[a] \subseteq Schema!UpTo(Schema!HeadRevision)
    BY DEF StageTypes
  <2> QED
    BY <2>1, <2>2 DEF Schema!Present
<1>6. ASSUME NEW a \in Apps, Schema!HealEvaluation(a)
      PROVE  DatabaseTypes' /\ Schema!Present \subseteq Schema!Present'
  <2>1. /\ {o \in odd : o.item # Schema!SequenceIndex} \subseteq odd'
        /\ exact' = exact \cup {Schema!SequenceIndex}
        /\ sequence' = IF Schema!Doubtful THEN [i \in DOMAIN sequence |-> i] ELSE sequence
        /\ UNCHANGED <<version, counter, unrouted>>
    BY <1>6 DEF Schema!HealEvaluation
  <2>2. Schema!SequenceIndex \in Schema!UpTo(Schema!HeadRevision)
    BY ItemData, RevisionsAccumulate
  <2>3. Schema!Present \subseteq Schema!Present'
    BY <2>1 DEF Schema!Present
  <2>4. sequence' \in Seq(Nat) /\ \E b \in Nat : \A i \in DOMAIN sequence' : sequence'[i] <= b
    <3>1. CASE Schema!Doubtful
      <4>1. DOMAIN sequence = 1..Len(sequence) /\ Len(sequence) \in Nat
        OBVIOUS
      <4>2. sequence' = [i \in 1..Len(sequence) |-> i]
        BY <2>1, <3>1, <4>1
      <4>3. sequence' \in [1..Len(sequence) -> Nat]
        BY <4>1, <4>2
      <4>4. sequence' \in Seq(Nat) /\ DOMAIN sequence' = 1..Len(sequence)
        BY <4>1, <4>3
      <4>5. \A i \in 1..Len(sequence) : sequence'[i] <= Len(sequence)
        BY <4>1, <4>2
      <4> QED
        BY <4>1, <4>4, <4>5
    <3>2. CASE ~Schema!Doubtful
      BY <2>1, <3>2
    <3> QED
      BY <3>1, <3>2
  <2> QED
    BY <2>1, <2>2, <2>3, <2>4
<1>7. ASSUME NEW a \in Apps, Schema!HealCounter(a)
      PROVE  DatabaseTypes' /\ Schema!Present \subseteq Schema!Present'
  <2>1. UNCHANGED <<exact, odd, version, sequence, unrouted>>
        /\ counter' = Schema!Max({1, counter} \cup {s + 1 : s \in Schema!Range(sequence)})
    BY <1>7 DEF Schema!HealCounter
  <2>2. counter' \in Nat
    BY <2>1, CounterIsLarge DEF SchemaTypes, DatabaseTypes
  <2> QED
    BY <2>1, <2>2 DEF Schema!Present
<1>8. CASE Schema!RecordRun
  <2>1. sequence' = Append(sequence, counter) /\ counter' = counter + 1
        /\ UNCHANGED <<exact, odd, version, unrouted>>
    BY <1>8 DEF Schema!RecordRun
  <2>2. PICK b \in Nat : \A i \in DOMAIN sequence : sequence[i] <= b
    OBVIOUS
  <2>3. /\ counter \in Nat /\ Len(sequence) \in Nat /\ DOMAIN sequence = 1..Len(sequence)
        /\ \A i \in DOMAIN sequence : sequence[i] \in Nat
    OBVIOUS
  <2>4. sequence' \in Seq(Nat)
    BY <2>1
  <2>5. DOMAIN sequence' = 1..(Len(sequence) + 1)
    BY <2>1
  <2>6. \A i \in DOMAIN sequence' :
           sequence'[i] = IF i \in DOMAIN sequence THEN sequence[i] ELSE counter
    BY <2>1, <2>3, <2>5
  <2>7. ASSUME NEW i \in DOMAIN sequence' PROVE sequence'[i] <= b + counter
    <3>1. CASE i \in DOMAIN sequence
      BY <2>2, <2>3, <2>6, <3>1
    <3>2. CASE i \notin DOMAIN sequence
      BY <2>3, <2>6, <3>2
    <3> QED
      BY <3>1, <3>2
  <2>8. b + counter \in Nat /\ counter' \in Nat
    BY <2>1, <2>3
  <2> QED
    BY <2>1, <2>4, <2>7, <2>8 DEF Schema!Present
<1>9. CASE Schema!OldAnswer
  BY <1>9 DEF Schema!OldAnswer, Schema!Present
<1> QED
  BY StepCases, <1>1, <1>2, <1>3, <1>4, <1>5, <1>6, <1>7, <1>8, <1>9

\* What an application looks for.
LEMMA LookCases ==
  ASSUME NEW a \in Apps, Schema!Look(a)
  PROVE  /\ \/ /\ stage[a] = "look upload" /\ stage' = [stage EXCEPT ![a] = "upload"]
               /\ missing' = [missing EXCEPT ![a] = Schema!UploadColumns \ Schema!Present]
            \/ /\ stage[a] = "look embedding" /\ stage' = [stage EXCEPT ![a] = "embedding"]
               /\ missing' = [missing EXCEPT ![a] = Schema!EmbeddingColumn \ Schema!Present]
            \/ /\ stage[a] = "look evaluation" /\ stage' = [stage EXCEPT ![a] = "evaluation"]
               /\ missing' = [missing EXCEPT ![a] = (Schema!EvaluationColumns \cup
                      {Schema!SequenceIndex}) \ Schema!Present]
         /\ UNCHANGED <<session, work, failures>>
<1>1. PICK s \in {[from |-> "look upload", to |-> "upload", items |-> Schema!UploadColumns],
                  [from |-> "look embedding", to |-> "embedding", items |-> Schema!EmbeddingColumn],
                  [from |-> "look evaluation", to |-> "evaluation",
                   items |-> Schema!EvaluationColumns \cup {Schema!SequenceIndex}]} :
        /\ stage[a] = s.from /\ stage' = [stage EXCEPT ![a] = s.to]
        /\ missing' = [missing EXCEPT ![a] = s.items \ Schema!Present]
  BY Zenon DEF Schema!Look, Schema!At
<1>2. UNCHANGED <<session, work, failures>>
  BY Zenon DEF Schema!Look
<1>3. CASE s = [from |-> "look upload", to |-> "upload", items |-> Schema!UploadColumns]
  BY <1>1, <1>2, <1>3
<1>4. CASE s = [from |-> "look embedding", to |-> "embedding", items |-> Schema!EmbeddingColumn]
  BY <1>1, <1>2, <1>4
<1>5. CASE s = [from |-> "look evaluation", to |-> "evaluation",
                items |-> Schema!EvaluationColumns \cup {Schema!SequenceIndex}]
  BY <1>1, <1>2, <1>5
<1> QED
  BY <1>1, <1>3, <1>4, <1>5

\* A migrator moves with its transaction.
Transaction == [items : SUBSET Schema!UpTo(Schema!HeadRevision), rev : 0..9]
LEMMA Moved ==
  ASSUME SchemaTypes, NEW m \in Migrators, NEW to \in SchemaStages, NEW w \in Transaction,
         stage' = [stage EXCEPT ![m] = to], work' = [work EXCEPT ![m] = w],
         session' = session, missing' = missing, failures' \in Nat,
         to \in Migrating => session = m, to # "upgrade" => w = Schema!Idle
  PROVE  StageTypes'
<1> USE DEF SchemaTypes, StageTypes, Transaction
<1>1. stage' \in [Migrators \cup Apps -> SchemaStages]
  OBVIOUS
<1>2. work' \in [Migrators -> [items : SUBSET Schema!UpTo(Schema!HeadRevision), rev : 0..9]]
  OBVIOUS
<1>3. ASSUME NEW n \in Migrators
      PROVE  /\ stage'[n] \in Migrating => session' = n
             /\ stage'[n] # "upgrade" => work'[n] = Schema!Idle
  <2>1. CASE n = m
    BY <2>1
  <2>2. CASE n # m
    BY <2>2
  <2> QED
    BY <2>1, <2>2
<1> QED
  BY <1>1, <1>2, <1>3

\* Every step keeps the types of the processes.
LEMMA MigratorStages ==
  ASSUME SchemaTypes, NEW m \in Migrators, Schema!StartMigrator(m) \/ Schema!Migrate(m)
  PROVE  StageTypes'
<1> USE DEF SchemaTypes, StageTypes, Schema!At
<1>1. CASE Schema!StartMigrator(m)
  BY <1>1 DEF Schema!StartMigrator, SchemaStages, Migrating
<1>2. CASE Schema!TakeLock(m)
  <2>1. \A n \in Migrators : stage[n] \notin Migrating
    BY <1>2, SchemaConstants DEF Schema!TakeLock
  <2> QED
    BY <1>2, <2>1 DEF Schema!TakeLock, SchemaStages, Migrating
<1>3. CASE Schema!Classify(m)
  <2>1. Schema!CurrentRevision \in 0..9 \/ Schema!Verdict = "refuse" \/ Schema!Verdict = "stamp"
    <3>1. CASE version.table /\ Schema!Readable
      <4>1. PICK r \in 1..Schema!HeadRevision : version.rows = {r}
        BY <3>1 DEF Schema!Readable
      <4> QED
        BY <4>1, CurrentIs, RevisionData
    <3>2. CASE ~(version.table /\ Schema!Readable)
      <4>1. CASE ~version.table /\ Schema!Present = {}
        <5>1. version.rows = {}
          BY <4>1 DEF DatabaseTypes
        <5> QED
          BY <5>1, CurrentNone
      <4>2. CASE ~version.table /\ Schema!Present # {}
        BY <4>2 DEF Schema!Verdict
      <4>3. CASE version.table
        BY <3>2, <4>3 DEF Schema!Verdict
      <4> QED
        BY <4>1, <4>2, <4>3
    <3> QED
      BY <3>1, <3>2
  <2>2. CASE Schema!At(m, "classify", "release") /\ work' = work
    BY <1>3, <2>2 DEF Schema!Classify, SchemaStages, Migrating
  <2>3. CASE /\ Schema!At(m, "classify", "upgrade") /\ Schema!Verdict # "refuse"
             /\ work' = [work EXCEPT ![m].rev = IF Schema!Verdict =
                    "stamp" THEN 1 ELSE Schema!CurrentRevision]
    <3> DEFINE r == IF Schema!Verdict = "stamp" THEN 1 ELSE Schema!CurrentRevision
    <3>1. r \in 0..9
      BY <2>1, <2>3
    <3> HIDE DEF r
    <3> DEFINE w == [work[m] EXCEPT !.rev = r]
    <3>2. w \in Transaction
      BY <3>1 DEF Transaction
    <3>3. work' = [work EXCEPT ![m] = w]
      BY <2>3 DEF r
    <3>4. /\ "upgrade" \in SchemaStages /\ stage' = [stage EXCEPT ![m] = "upgrade"]
          /\ session = m /\ session' = session /\ missing' = missing /\ failures' \in Nat
      BY <1>3, <2>3 DEF Schema!Classify, SchemaStages, Migrating
    <3> HIDE DEF w
    <3> QED
      BY <3>2, <3>3, <3>4, Moved
  <2> QED
    BY <1>3, <2>2, <2>3 DEF Schema!Classify
<1>4. CASE Schema!ApplyRevision(m)
  <2>1. work[m].rev \in 0..8 /\ Schema!Revision[work[m].rev + 1] \subseteq Schema!UpTo(Schema!HeadRevision)
    <3>1. work[m].rev \in 0..8
      BY <1>4, RevisionData DEF Schema!ApplyRevision
    <3>2. work[m].rev + 1 \in 1..9
      BY <3>1
    <3> QED
      BY <3>1, <3>2, RevisionsAccumulate
  <2> DEFINE w == [items |-> work[m].items \cup Schema!Revision[work[m].rev + 1],
          rev |-> work[m].rev + 1]
  <2>2. w \in [items : SUBSET Schema!UpTo(Schema!HeadRevision), rev : 0..9]
    BY <2>1
  <2>3. work' = [work EXCEPT ![m] = w]
    BY <1>4 DEF Schema!ApplyRevision
  <2>4. /\ "upgrade" \in SchemaStages /\ stage' = [stage EXCEPT ![m] = "upgrade"]
        /\ session = m /\ session' = session /\ missing' = missing /\ failures' \in Nat
    BY <1>4 DEF Schema!ApplyRevision, SchemaStages, Migrating
  <2> HIDE DEF w
  <2> QED
    BY <2>2, <2>3, <2>4, Moved DEF Transaction
<1>5. CASE Schema!FailRevision(m)
  <2>1. /\ stage' = [stage EXCEPT ![m] = "release"] /\ work' = [work EXCEPT ![m] = Schema!Idle]
        /\ session' = session /\ missing' = missing /\ failures' \in Nat /\ session = m
    BY <1>5 DEF Schema!FailRevision, Migrating
  <2>2. Schema!Idle \in Transaction
    BY DEF Transaction, Schema!Idle
  <2>3. "release" \in SchemaStages
    BY DEF SchemaStages, Migrating
  <2> QED
    BY <2>1, <2>2, <2>3, Moved
<1>6. CASE Schema!CommitMigration(m)
  <2>1. PICK to \in {"done", "release"} : stage' = [stage EXCEPT ![m] = to]
    BY <1>6 DEF Schema!CommitMigration
  <2>2. /\ work' = [work EXCEPT ![m] = Schema!Idle]
        /\ session' = session /\ missing' = missing /\ failures' \in Nat /\ session = m
    BY <1>6 DEF Schema!CommitMigration, Migrating
  <2>3. Schema!Idle \in Transaction
    BY DEF Transaction, Schema!Idle
  <2>4. to \in SchemaStages /\ to # "upgrade"
    BY DEF SchemaStages, Migrating
  <2> QED
    BY <2>1, <2>2, <2>3, <2>4, Moved
<1>7. CASE Schema!ReleaseLock(m)
  BY <1>7 DEF Schema!ReleaseLock, SchemaStages, Migrating
<1> QED
  BY <1>1, <1>2, <1>3, <1>4, <1>5, <1>6, <1>7 DEF Schema!Migrate

LEMMA ApplicationStages ==
  ASSUME SchemaTypes, NEW a \in Apps, Schema!StartApplication(a) \/ Schema!Heal(a)
  PROVE  StageTypes'
<1>1. /\ \E to \in SchemaStages \ (Migrating \cup {"upgrade"}) : stage' = [stage EXCEPT ![a] = to]
      /\ work' = work /\ session' = session /\ failures' = failures
      /\ \E items \in SUBSET Schema!UpTo(Schema!HeadRevision) :
            missing' = missing \/ missing' = [missing EXCEPT ![a] = items]
  <2>1. CASE Schema!StartApplication(a)
    BY <2>1, TableData DEF Schema!StartApplication, Schema!At, SchemaStages, Migrating
  <2>2. CASE Schema!Look(a)
    <3>1. {"upload", "embedding", "evaluation"} \subseteq SchemaStages \ (Migrating \cup {"upgrade"})
      BY DEF SchemaStages, Migrating
    <3>2. /\ Schema!UploadColumns \subseteq Schema!UpTo(Schema!HeadRevision) /\
                 Schema!EmbeddingColumn \subseteq Schema!UpTo(Schema!HeadRevision)
          /\ Schema!EvaluationColumns \cup
                 {Schema!SequenceIndex} \subseteq Schema!UpTo(Schema!HeadRevision)
      BY ItemData, RevisionsAccumulate
    <3>3. /\ Schema!UploadColumns \ Schema!Present \in SUBSET Schema!UpTo(Schema!HeadRevision)
          /\ Schema!EmbeddingColumn \ Schema!Present \in SUBSET Schema!UpTo(Schema!HeadRevision)
          /\ (Schema!EvaluationColumns \cup {Schema!SequenceIndex}) \ Schema!Present \in
                 SUBSET Schema!UpTo(Schema!HeadRevision)
      BY <3>2
    <3>4. /\ \E to \in {"upload", "embedding", "evaluation"} : stage' = [stage EXCEPT ![a] = to]
          /\ work' = work /\ session' = session /\ failures' = failures
      BY <2>2, LookCases
    <3>5. \E items \in SUBSET Schema!UpTo(Schema!HeadRevision) : missing' = [missing EXCEPT ![a] =
              items]
      BY <2>2, <3>3, LookCases
    <3> QED
      BY <3>1, <3>4, <3>5
  <2>3. CASE Schema!CreateTables(a) \/ Schema!HealUpload(a) \/ Schema!HealEmbedding(a)
    BY <2>3 DEF Schema!CreateTables, Schema!HealUpload, Schema!HealEmbedding, Schema!At, SchemaStages,
       Migrating
  <2>4. CASE Schema!HealEvaluation(a) \/ Schema!HealCounter(a)
    BY <2>4 DEF Schema!HealEvaluation, Schema!HealCounter, Schema!At, SchemaStages, Migrating
  <2>5. CASE Schema!FailApplication(a)
    BY <2>5 DEF Schema!FailApplication, Schema!At, SchemaStages, Migrating
  <2> QED
    BY <2>1, <2>2, <2>3, <2>4, <2>5 DEF Schema!Heal
<1>2. a \notin Migrators
  BY SchemaConstants
<1>3. stage' \in [Migrators \cup Apps -> SchemaStages] /\ \A m \in Migrators : stage'[m] = stage[m]
  BY <1>1, <1>2 DEF SchemaTypes, StageTypes
<1>4. missing' \in [Apps -> SUBSET Schema!UpTo(Schema!HeadRevision)]
  BY <1>1 DEF SchemaTypes, StageTypes
<1> QED
  BY <1>1, <1>3, <1>4 DEF SchemaTypes, StageTypes

\* So does every step of anybody.
LEMMA StageStep ==
  ASSUME SchemaTypes, Schema!Next
  PROVE  StageTypes'
<1>1. CASE Schema!RecordRun \/ Schema!OldAnswer
  BY <1>1 DEF Schema!RecordRun, Schema!OldAnswer, SchemaTypes, StageTypes
<1>2. ASSUME NEW p \in Migrators \cup Apps, Schema!KillProcess(p)
      PROVE  StageTypes'
  <2> USE DEF SchemaTypes, StageTypes
  <2>1. /\ stage' = [stage EXCEPT ![p] = "off"] /\ failures' = failures + 1 /\ missing' = missing
        /\ session' = IF session = p THEN Schema!Nobody ELSE session
        /\ work' = [m \in Migrators |-> IF m = p THEN Schema!Idle ELSE work[m]]
    BY <1>2 DEF Schema!KillProcess
  <2>2. stage' \in [Migrators \cup Apps -> SchemaStages] /\ session' \in Migrators \cup {Schema!Nobody}
        /\ failures' \in Nat
    <3>1. "off" \in SchemaStages
      BY DEF SchemaStages
    <3> QED
      BY <2>1, <3>1
  <2>3. work' \in [Migrators -> [items : SUBSET Schema!UpTo(Schema!HeadRevision), rev : 0..9]]
    BY <2>1 DEF Schema!Idle
  <2>4. ASSUME NEW m \in Migrators
        PROVE  /\ stage'[m] \in Migrating => session' = m
               /\ stage'[m] # "upgrade" => work'[m] = Schema!Idle
    BY <2>1 DEF Migrating
  <2> QED
    BY <2>1, <2>2, <2>3, <2>4
<1> QED
  BY <1>1, <1>2, MigratorStages, ApplicationStages DEF Schema!Next, Schema!Work

\* Every step keeps all the types, and no item goes away.
LEMMA SchemaTypesStep ==
  ASSUME SchemaTypes, Applications, Schema!Next
  PROVE  SchemaTypes' /\ Schema!Present \subseteq Schema!Present'
  BY DatabaseStep, StageStep DEF SchemaTypes

\* The steps of a process leave the others alone; its death moves it away.
LEMMA MigratorFrame ==
  ASSUME SchemaTypes, NEW m \in Migrators, Schema!StartMigrator(m) \/ Schema!Migrate(m)
  PROVE  /\ \A p \in (Migrators \cup Apps) \ {m} : stage'[p] = stage[p]
         /\ \A n \in Migrators \ {m} : work'[n] = work[n]
         /\ missing' = missing
<1> USE DEF SchemaTypes, StageTypes, Schema!At
<1>1. CASE Schema!StartMigrator(m) \/ Schema!TakeLock(m)
  BY <1>1 DEF Schema!StartMigrator, Schema!TakeLock
<1>2. CASE Schema!Classify(m)
  BY <1>2 DEF Schema!Classify
<1>3. CASE Schema!ApplyRevision(m) \/ Schema!FailRevision(m)
  BY <1>3 DEF Schema!ApplyRevision, Schema!FailRevision
<1>4. CASE Schema!CommitMigration(m) \/ Schema!ReleaseLock(m)
  BY <1>4 DEF Schema!CommitMigration, Schema!ReleaseLock
<1> QED
  BY <1>1, <1>2, <1>3, <1>4 DEF Schema!Migrate

LEMMA ApplicationFrame ==
  ASSUME SchemaTypes, NEW a \in Apps, Schema!StartApplication(a) \/ Schema!Heal(a)
  PROVE  /\ \A p \in (Migrators \cup Apps) \ {a} : stage'[p] = stage[p]
         /\ \A b \in Apps \ {a} : missing'[b] = missing[b]
         /\ work' = work /\ session' = session /\ origin' = origin /\ version' = version
<1> USE DEF SchemaTypes, StageTypes, Schema!At
<1>1. CASE Schema!StartApplication(a)
  BY <1>1 DEF Schema!StartApplication, Schema!database
<1>2. CASE Schema!Look(a)
  <2>1. origin' = origin /\ version' = version
    BY <1>2, ApplicationRests DEF Rests
  <2> QED
    BY <1>2, <2>1, LookCases
<1>3. CASE Schema!CreateTables(a) \/ Schema!HealUpload(a) \/ Schema!HealEmbedding(a)
  BY <1>3 DEF Schema!CreateTables, Schema!HealUpload, Schema!HealEmbedding
<1>4. CASE Schema!HealEvaluation(a) \/ Schema!HealCounter(a)
  BY <1>4 DEF Schema!HealEvaluation, Schema!HealCounter
<1>5. CASE Schema!FailApplication(a)
  BY <1>5 DEF Schema!FailApplication, Schema!database
<1> QED
  BY <1>1, <1>2, <1>3, <1>4, <1>5 DEF Schema!Heal

LEMMA DeathFrame ==
  ASSUME SchemaTypes, NEW p \in Migrators \cup Apps, Schema!KillProcess(p)
  PROVE  /\ \A q \in Migrators \cup Apps : stage'[q] \in {stage[q], "off"}
         /\ \A n \in Migrators : work'[n] \in {work[n], Schema!Idle}
         /\ \A n \in Migrators : stage'[n] # "off" => work'[n] = work[n]
         /\ missing' = missing /\ failures' = failures + 1
<1> USE DEF SchemaTypes, StageTypes
<1>1. /\ stage' = [stage EXCEPT ![p] = "off"] /\ missing' = missing /\ failures' = failures + 1
      /\ work' = [m \in Migrators |-> IF m = p THEN Schema!Idle ELSE work[m]]
  BY DEF Schema!KillProcess
<1> QED
  BY <1>1

\* Nor does a run or an older API move anybody.
LEMMA RunsFrame ==
  ASSUME Schema!RecordRun \/ Schema!OldAnswer
  PROVE  UNCHANGED <<origin, exact, odd, version, stage, work, missing, session, failures>>
  BY Zenon DEF Schema!RecordRun, Schema!OldAnswer

\* Only a commit writes the version, and no step takes an item away.
LEMMA VersionStays ==
  ASSUME SchemaTypes, Schema!Next
  PROVE  /\ origin' = origin /\ exact \subseteq exact'
         /\ version' = version \/ \E m \in Migrators : Schema!CommitMigration(m)
<1>1. CASE Rests
  BY <1>1 DEF Rests
<1>2. ASSUME NEW m \in Migrators, Schema!CommitMigration(m)
      PROVE  origin' = origin /\ exact \subseteq exact'
  BY <1>2 DEF Schema!CommitMigration, Schema!Committed
<1>3. ASSUME NEW a \in Apps,
             Schema!CreateTables(a) \/ Schema!HealUpload(a) \/ Schema!HealEmbedding(a) \/
             Schema!HealEvaluation(a) \/ Schema!HealCounter(a)
      PROVE  origin' = origin /\ exact \subseteq exact' /\ version' = version
  BY <1>3 DEF Schema!CreateTables, Schema!HealUpload, Schema!HealEmbedding, Schema!HealEvaluation,
     Schema!HealCounter
<1>4. CASE Schema!RecordRun \/ Schema!OldAnswer
  BY <1>4 DEF Schema!RecordRun, Schema!OldAnswer
<1> QED
  BY StepCases, <1>1, <1>2, <1>3, <1>4

\* An item in another form is never made by a revision as well: when there is
\* one, the tables of the baseline are there, so no migrator may make them.
LEMMA OddStep ==
  ASSUME SchemaTypes, OddItems, Applications, Transacts, Schema!Next
  PROVE  OddItems'
<1>0. Schema!BaselineTables \subseteq Schema!Present =>
          Schema!BaselineTables \subseteq Schema!Present'
  BY SchemaTypesStep
<1> USE DEF OddItems
<1>1. CASE Rests
  BY <1>1 DEF Rests, Schema!Present
<1>2. ASSUME NEW m \in Migrators, Schema!CommitMigration(m)
      PROVE  OddItems'
  <2>1. odd' = odd /\ exact' = exact \cup work[m].items
    BY <1>2 DEF Schema!CommitMigration, Schema!Committed
  <2>2. ASSUME NEW o \in odd PROVE o.item \notin work[m].items
    <3>1. "evaluation_counters" \in Schema!Present /\ o.item \in Healed
      BY <2>2, ItemData
    <3> QED
      BY <3>1 DEF Transacts
  <2> QED
    BY <1>0, <2>1, <2>2
<1>3. ASSUME NEW a \in Apps, Schema!CreateTables(a)
      PROVE  OddItems'
  <2>1. odd' = odd /\ exact' = exact \cup Schema!WithColumns(missing[a])
    BY <1>3 DEF Schema!CreateTables
  <2>2. missing[a] \cap Schema!Present = {} /\ missing[a] \subseteq Schema!Tables
    BY <1>3 DEF Schema!CreateTables, Schema!Late, Applications, Schema!At
  <2>3. ASSUME NEW o \in odd PROVE o.item \notin Schema!WithColumns(missing[a])
    <3>1. Schema!BaselineTables \subseteq Schema!Present /\ o.item \in Healed /\
              o.item \in Schema!Present
      BY <2>3 DEF Schema!Present
    <3>2. o.item \notin missing[a]
      BY <2>2, <3>1
    <3>3. \A t \in missing[a] \cap DOMAIN Schema!ColumnsOf : o.item \notin Schema!ColumnsOf[t]
      BY <2>2, <3>1, TableData
    <3> QED
      BY <3>2, <3>3 DEF Schema!WithColumns
  <2> QED
    BY <1>0, <2>1, <2>3
<1>4. ASSUME NEW a \in Apps, Schema!HealUpload(a)
      PROVE  OddItems'
  <2>1. exact' = exact /\ odd' = odd \cup {[item |-> i, how |-> "order"] : i \in missing[a]}
    BY <1>4 DEF Schema!HealUpload
  <2>2. /\ missing[a] \cap Schema!Present = {} /\ missing[a] \subseteq Schema!UploadColumns
        /\ Schema!Tables \subseteq Schema!Present
    BY <1>4 DEF Schema!HealUpload, Schema!Late, Applications, Schema!At, Healing
  <2>3. Schema!BaselineTables \subseteq Schema!Present'
    BY <1>0, <2>2, TableData
  <2>4. "order" \in Schema!Fingerprinted \cup Schema!Catalogued
    BY WaysData
  <2>5. ASSUME NEW i \in missing[a] PROVE i \in Healed /\ i \notin exact
    BY <2>2, ItemData DEF Schema!Present
  <2> QED
    BY <2>1, <2>3, <2>4, <2>5
<1>5. ASSUME NEW a \in Apps, Schema!HealEmbedding(a)
      PROVE  OddItems'
  <2>1. odd' = odd /\ exact' = exact \cup missing[a]
    BY <1>5 DEF Schema!HealEmbedding
  <2>2. missing[a] \subseteq Schema!EmbeddingColumn
    BY <1>5 DEF Schema!HealEmbedding, Applications, Schema!At
  <2> QED
    BY <1>0, <2>1, <2>2, ItemData
<1>6. ASSUME NEW a \in Apps, Schema!HealEvaluation(a)
      PROVE  OddItems'
  <2>1. exact' = exact \cup {Schema!SequenceIndex}
    BY <1>6 DEF Schema!HealEvaluation
  <2>2. /\ missing[a] \cap Schema!Present = {} /\ Schema!Tables \subseteq Schema!Present
    BY <1>6 DEF Schema!HealEvaluation, Schema!Late, Applications, Schema!At, Healing
  <2>3. Schema!BaselineTables \subseteq Schema!Present'
    BY <1>0, <2>2, TableData
  <2>4. {"default", "nullable"} \subseteq Schema!Fingerprinted \cup Schema!Catalogued
    BY WaysData
  <2>5. ASSUME NEW o \in odd'
        PROVE  \/ o \in odd /\ o.item # Schema!SequenceIndex
               \/ \E i \in missing[a] \cap Schema!EvaluationColumns, how \in {"default",
                      "nullable"} :
                     o = [item |-> i, how |-> how]
    BY <1>6, <2>5 DEF Schema!HealEvaluation, Schema!EvaluationColumns
  <2>6. ASSUME NEW i \in missing[a] \cap Schema!EvaluationColumns
        PROVE  i \in Healed /\ i \notin exact /\ i # Schema!SequenceIndex
    BY <2>2, ItemData DEF Schema!Present
  <2>7. ASSUME NEW o \in odd'
        PROVE  o \in [item : Healed, how : Schema!Fingerprinted \cup Schema!Catalogued] /\
                   o.item \notin exact'
    <3>1. CASE o \in odd /\ o.item # Schema!SequenceIndex
      BY <2>1, <3>1
    <3>2. ASSUME NEW i \in missing[a] \cap Schema!EvaluationColumns, NEW how \in {"default",
                     "nullable"},
                 o = [item |-> i, how |-> how]
          PROVE  o \in [item : Healed, how : Schema!Fingerprinted \cup Schema!Catalogued] /\
                     o.item \notin exact'
      BY <2>1, <2>4, <2>6, <3>2
    <3> QED
      BY <2>5, <2>7, <3>1, <3>2
  <2> QED
    BY <2>3, <2>7
<1>7. ASSUME NEW a \in Apps, Schema!HealCounter(a)
      PROVE  OddItems'
  BY <1>7 DEF Schema!HealCounter, Schema!Present
<1>8. CASE Schema!RecordRun \/ Schema!OldAnswer
  BY <1>8, RunsFrame DEF Schema!Present
<1> QED
  BY StepCases, <1>1, <1>2, <1>3, <1>4, <1>5, <1>6, <1>7, <1>8

\* What a commit brings is everything up to its revision, with routes.
LEMMA WholeStep ==
  ASSUME SchemaTypes, Transacts, Whole, Schema!Next
  PROVE  Whole'
<1> USE DEF Whole
<1>1. CASE version' = version
  BY <1>1, VersionStays, SMTT(30)
<1>2. ASSUME NEW m \in Migrators, Schema!CommitMigration(m)
      PROVE  Whole'
  <2>1. /\ work[m].rev = Schema!HeadRevision /\ stage[m] = "upgrade"
        /\ exact' = exact \cup work[m].items /\ version'.rows = {work[m].rev}
    BY <1>2 DEF Schema!CommitMigration, Schema!Committed, Schema!At
  <2> QED
    BY <2>1, RevisionData DEF Transacts
<1> QED
  BY VersionStays, <1>1, <1>2

\* At the head the column of the routes is there, so an older API writes no run.
LEMMA RoutedStep ==
  ASSUME SchemaTypes, Transacts, Disordered, Whole, Routed, Schema!Next
  PROVE  Routed'
<1> USE DEF Routed
<1>1. CASE Rests
  BY <1>1 DEF Rests
<1>2. ASSUME NEW m \in Migrators, Schema!CommitMigration(m)
      PROVE  Routed'
  <2>1. /\ work[m].rev = Schema!HeadRevision /\ stage[m] = "upgrade"
        /\ unrouted' = (unrouted /\ Schema!RouteAudit \cap work[m].items = {})
    BY <1>2 DEF Schema!CommitMigration, Schema!Committed, Schema!At
  <2>2. CASE work[m].items = {}
    BY <2>1, <2>2 DEF Transacts
  <2>3. CASE work[m].items # {}
    <3>1. Schema!RouteAudit \subseteq work[m].items
      BY <2>1, <2>3, RevisionData DEF Transacts
    <3>2. Schema!RouteAudit # {}
      BY DEF Schema!RouteAudit
    <3> QED
      BY <2>1, <3>1, <3>2
  <2> QED
    BY <2>2, <2>3
<1>3. ASSUME NEW a \in Apps,
             Schema!CreateTables(a) \/ Schema!HealUpload(a) \/ Schema!HealEmbedding(a) \/
             Schema!HealEvaluation(a) \/ Schema!HealCounter(a)
      PROVE  Routed'
  BY <1>3 DEF Schema!CreateTables, Schema!HealUpload, Schema!HealEmbedding, Schema!HealEvaluation,
     Schema!HealCounter
<1>4. CASE Schema!RecordRun
  BY <1>4 DEF Schema!RecordRun
<1>5. CASE Schema!OldAnswer
  <2>1. version' = version /\ Schema!RouteAudit \cap Schema!Present = {}
    BY <1>5 DEF Schema!OldAnswer
  <2>2. Schema!RouteAudit # {}
    BY DEF Schema!RouteAudit
  <2>3. ASSUME version.rows = {Schema!HeadRevision} PROVE FALSE
    <3>1. version.table /\ origin # "drifted"
      BY <2>3, RevisionData DEF Disordered, SchemaTypes, DatabaseTypes
    <3>2. PICK r \in 1..Schema!HeadRevision : version.rows = {r} /\ Schema!UpTo(r) \subseteq exact
      BY <3>1 DEF Whole
    <3>3. Schema!UpTo(Schema!HeadRevision) \subseteq exact
      BY <2>3, <3>2
    <3>4. Schema!Revision[9] \subseteq Schema!UpTo(9)
      BY RevisionsAccumulate
    <3>5. Schema!RouteAudit \subseteq exact
      BY <3>3, <3>4, RevisionData
    <3> QED
      BY <2>1, <2>2, <3>5 DEF Schema!Present
  <2> QED
    BY <2>1, <2>3
<1> QED
  BY StepCases, <1>1, <1>2, <1>3, <1>4, <1>5

\* The same of the next state.
Ahead == counter > 0 /\ \A i \in DOMAIN sequence : counter > sequence[i]
LEMMA AheadNow == SchemaTypes => (Schema!CounterValid <=> Ahead)
  BY CounterIsAhead DEF Ahead
LEMMA AheadNext == SchemaTypes' => (Schema!CounterValid' <=> Ahead')
  BY AheadNow, PTL

\* Runs that are numbered stay so, and the counter ahead of them.
LEMMA NumbersStay ==
  ASSUME SchemaTypes, SchemaTypes', Transacts, Schema!Next, ~Schema!Doubtful
  PROVE  /\ ~Schema!Doubtful'
         /\ Schema!CounterValid /\ "evaluation_counters" \in Schema!Present => Schema!CounterValid'
<1>0. Schema!CounterValid <=> counter > 0 /\ \A i \in DOMAIN sequence : counter > sequence[i]
  BY CounterIsAhead
<1>00. Schema!CounterValid' <=> counter' > 0 /\ \A i \in DOMAIN sequence' : counter' > sequence'[i]
  BY AheadNext DEF Ahead
<1>1. CASE sequence' = sequence /\ counter' = counter
  BY <1>0, <1>00, <1>1 DEF Schema!Doubtful
<1>2. ASSUME NEW m \in Migrators, Schema!CommitMigration(m)
      PROVE  /\ ~Schema!Doubtful'
             /\ Schema!CounterValid /\ "evaluation_counters" \in Schema!Present =>
                    Schema!CounterValid'
  <2>1. /\ sequence' = sequence
        /\ counter' = IF "evaluation_counters" \in work[m].items THEN 1 ELSE counter
    BY <1>2 DEF Schema!CommitMigration, Schema!Committed
  <2>2. "evaluation_counters" \in Schema!Present => counter' = counter
    BY <2>1 DEF Transacts
  <2> QED
    BY <1>0, <1>00, <2>1, <2>2 DEF Schema!Doubtful
<1>3. ASSUME NEW a \in Apps, Schema!HealEvaluation(a)
      PROVE  sequence' = sequence /\ counter' = counter
  BY <1>3 DEF Schema!HealEvaluation
<1>4. ASSUME NEW a \in Apps, Schema!HealCounter(a)
      PROVE  ~Schema!Doubtful' /\ Schema!CounterValid'
  <2>1. sequence' = sequence /\ counter' = Schema!Max({1,
            counter} \cup {s + 1 : s \in Schema!Range(sequence)})
    BY <1>4 DEF Schema!HealCounter
  <2>2. counter' \in Nat /\ counter' >= 1 /\ \A i \in DOMAIN sequence : counter' > sequence[i]
    BY <2>1, CounterIsLarge
  <2> QED
    BY <1>00, <2>1, <2>2 DEF Schema!Doubtful
<1>5. CASE Schema!RecordRun
  <2>1. /\ sequence' = Append(sequence, counter) /\ counter' = counter + 1
        /\ counter > 0 /\ counter \notin Schema!Range(sequence)
    BY <1>5 DEF Schema!RecordRun
  <2>2. /\ counter \in Nat /\ Len(sequence) \in Nat /\ DOMAIN sequence = 1..Len(sequence)
        /\ sequence \in Seq(Nat) /\ \A i \in DOMAIN sequence : sequence[i] \in Nat
    BY DEF SchemaTypes, DatabaseTypes
  <2>3. DOMAIN sequence' = 1..(Len(sequence) + 1)
    BY <2>1, <2>2
  <2>4. \A i \in DOMAIN sequence' :
           sequence'[i] = IF i \in DOMAIN sequence THEN sequence[i] ELSE counter
    BY <2>1, <2>2, <2>3
  <2>5. \A i \in DOMAIN sequence : sequence[i] # counter
    BY <2>1 DEF Schema!Range
  <2>6. \A i \in DOMAIN sequence' \ DOMAIN sequence : i = Len(sequence) + 1
    BY <2>2, <2>3
  <2>7. ~Schema!Doubtful'
    <3>1. ASSUME NEW i \in DOMAIN sequence' PROVE sequence'[i] # 0
      BY <2>1, <2>4 DEF Schema!Doubtful
    <3>2. ASSUME NEW i \in DOMAIN sequence', NEW j \in DOMAIN sequence', i # j
          PROVE  sequence'[i] # sequence'[j]
      <4>1. CASE i \in DOMAIN sequence /\ j \in DOMAIN sequence
        BY <2>4, <3>2, <4>1 DEF Schema!Doubtful
      <4>2. CASE i \in DOMAIN sequence /\ j \notin DOMAIN sequence
        BY <2>4, <2>5, <4>2
      <4>3. CASE i \notin DOMAIN sequence /\ j \in DOMAIN sequence
        BY <2>4, <2>5, <4>3
      <4>4. CASE i \notin DOMAIN sequence /\ j \notin DOMAIN sequence
        BY <2>6, <3>2, <4>4
      <4> QED
        BY <4>1, <4>2, <4>3, <4>4
    <3> QED
      BY <3>1, <3>2 DEF Schema!Doubtful
  <2>8. Schema!CounterValid => Schema!CounterValid'
    <3> SUFFICES ASSUME Schema!CounterValid PROVE Schema!CounterValid'
      OBVIOUS
    <3>1. \A i \in DOMAIN sequence : counter > sequence[i]
      BY <1>0
    <3>2. ASSUME NEW i \in DOMAIN sequence' PROVE counter' > sequence'[i]
      <4>1. CASE i \in DOMAIN sequence
        BY <2>1, <2>2, <2>4, <3>1, <4>1
      <4>2. CASE i \notin DOMAIN sequence
        BY <2>1, <2>2, <2>4, <4>2
      <4> QED
        BY <4>1, <4>2
    <3>3. counter' > 0
      BY <2>1, <2>2
    <3> QED
      BY <1>00, <3>2, <3>3
  <2> QED
    BY <2>7, <2>8
<1>6. ASSUME Rests PROVE sequence' = sequence /\ counter' = counter
  BY <1>6 DEF Rests
<1>7. ASSUME NEW a \in Apps, Schema!CreateTables(a) \/ Schema!HealUpload(a) \/
                 Schema!HealEmbedding(a)
      PROVE  sequence' = sequence /\ counter' = counter
  BY <1>7 DEF Schema!CreateTables, Schema!HealUpload, Schema!HealEmbedding
<1>8. ASSUME Schema!OldAnswer PROVE sequence' = sequence /\ counter' = counter
  BY <1>8 DEF Schema!OldAnswer
<1> QED
  BY StepCases, <1>1, <1>2, <1>3, <1>4, <1>5, <1>6, <1>7, <1>8

\* Healing the runs leaves them numbered.
LEMMA HealedRuns ==
  ASSUME SchemaTypes, NEW a \in Apps, Schema!HealEvaluation(a)
  PROVE  ~Schema!Doubtful'
<1>1. sequence' = IF Schema!Doubtful THEN [i \in DOMAIN sequence |-> i] ELSE sequence
  BY DEF Schema!HealEvaluation
<1>2. CASE Schema!Doubtful
  <2>1. DOMAIN sequence \subseteq Nat \ {0}
    BY DEF SchemaTypes, DatabaseTypes
  <2>2. DOMAIN sequence' = DOMAIN sequence /\ \A i \in DOMAIN sequence : sequence'[i] = i
    BY <1>1, <1>2
  <2> QED
    BY <2>1, <2>2 DEF Schema!Doubtful
<1>3. CASE ~Schema!Doubtful
  BY <1>1, <1>3 DEF Schema!Doubtful
<1> QED
  BY <1>2, <1>3

\* An application that heals has all tables, and one that serves numbered runs
\* and a counter that is ahead of them.
ApplicationOf(a) ==
    /\ stage[a] = "create" => Schema!Tables \subseteq Schema!Present \cup missing[a]
    /\ stage[a] = "create" => missing[a] \subseteq Schema!Tables
    /\ stage[a] = "upload" => missing[a] \subseteq Schema!UploadColumns
    /\ stage[a] = "embedding" => missing[a] \subseteq Schema!EmbeddingColumn
    /\ stage[a] = "evaluation" => missing[a] \subseteq Schema!EvaluationColumns \cup
           {Schema!SequenceIndex}
    /\ stage[a] \in Healing => Schema!Tables \subseteq Schema!Present
    /\ stage[a] \in Serves => ~Schema!Doubtful
    /\ stage[a] = "serving" => Schema!CounterValid
LEMMA ApplicationStays ==
  ASSUME SchemaTypes, SchemaTypes', Applications, Transacts, Schema!Next,
             Schema!Present \subseteq Schema!Present',
         NEW a \in Apps, stage'[a] \in {stage[a], "off"}, missing'[a] = missing[a]
  PROVE  ApplicationOf(a)'
<1>1. ApplicationOf(a)
  BY DEF Applications, ApplicationOf
<1>2. stage[a] = "serving" => "evaluation_counters" \in Schema!Present
  BY <1>1, ItemData, TableData DEF ApplicationOf, Healing, Serves
<1>3. CASE stage'[a] = "off"
  BY <1>3 DEF ApplicationOf, Healing, Serves
<1>4. CASE stage'[a] = stage[a]
  <2>1. stage'[a] \in Serves => ~Schema!Doubtful'
    BY <1>1, <1>4, NumbersStay DEF ApplicationOf
  <2>2. stage'[a] = "serving" => Schema!CounterValid'
    BY <1>1, <1>2, <1>4, NumbersStay DEF ApplicationOf, Serves
  <2> QED
    BY <1>1, <1>4, <2>1, <2>2 DEF ApplicationOf
<1> QED
  BY <1>3, <1>4

LEMMA ApplicationMoves ==
  ASSUME SchemaTypes, SchemaTypes', Applications, Transacts, Schema!Next,
             Schema!Present \subseteq Schema!Present',
         NEW a \in Apps, Schema!StartApplication(a) \/ Schema!Heal(a)
  PROVE  ApplicationOf(a)'
<1> USE DEF Schema!At
<1>0. ApplicationOf(a) /\ a \in DOMAIN stage /\ a \in DOMAIN missing
  BY DEF Applications, ApplicationOf, SchemaTypes, StageTypes
<1>1. CASE Schema!StartApplication(a)
  <2>1. stage'[a] = "create" /\ missing'[a] = Schema!Tables \ Schema!Present
    BY <1>0, <1>1 DEF Schema!StartApplication
  <2> QED
    BY <2>1 DEF ApplicationOf, Healing, Serves
<1>2. CASE Schema!CreateTables(a)
  <2>1. /\ stage[a] = "create" /\ stage'[a] = "look upload" /\ missing[a] \subseteq exact'
    BY <1>0, <1>2 DEF Schema!CreateTables, Schema!WithColumns
  <2>2. Schema!Tables \subseteq Schema!Present'
    BY <1>0, <2>1 DEF ApplicationOf, Schema!Present
  <2> QED
    BY <2>1, <2>2 DEF ApplicationOf, Healing, Serves
<1>3. CASE Schema!Look(a)
  <2>1. stage[a] \in Healing
    BY <1>3, LookCases DEF Healing
  <2>2. Schema!Tables \subseteq Schema!Present'
    BY <1>0, <2>1 DEF ApplicationOf
  <2>3. \/ stage'[a] = "upload" /\ missing'[a] \subseteq Schema!UploadColumns
        \/ stage'[a] = "embedding" /\ missing'[a] \subseteq Schema!EmbeddingColumn
        \/ stage'[a] = "evaluation" /\
               missing'[a] \subseteq Schema!EvaluationColumns \cup {Schema!SequenceIndex}
    <3>1. CASE /\ stage' = [stage EXCEPT ![a] = "upload"]
               /\ missing' = [missing EXCEPT ![a] = Schema!UploadColumns \ Schema!Present]
      BY <1>0, <3>1
    <3>2. CASE /\ stage' = [stage EXCEPT ![a] = "embedding"]
               /\ missing' = [missing EXCEPT ![a] = Schema!EmbeddingColumn \ Schema!Present]
      BY <1>0, <3>2
    <3>3. CASE /\ stage' = [stage EXCEPT ![a] = "evaluation"]
               /\ missing' = [missing EXCEPT ![a] = (Schema!EvaluationColumns \cup
                      {Schema!SequenceIndex}) \ Schema!Present]
      BY <1>0, <3>3
    <3> QED
      BY <1>3, <3>1, <3>2, <3>3, LookCases, Zenon
  <2> QED
    BY <2>2, <2>3 DEF ApplicationOf, Healing, Serves
<1>4. CASE Schema!HealUpload(a) \/ Schema!HealEmbedding(a)
  <2>1. stage[a] \in Healing /\ stage'[a] \in {"look embedding", "look evaluation"}
    BY <1>0, <1>4 DEF Schema!HealUpload, Schema!HealEmbedding, Healing
  <2>2. Schema!Tables \subseteq Schema!Present'
    BY <1>0, <2>1 DEF ApplicationOf
  <2> QED
    BY <2>1, <2>2 DEF ApplicationOf, Healing, Serves
<1>5. CASE Schema!HealEvaluation(a)
  <2>1. stage[a] \in Healing /\ stage'[a] = "counter"
    BY <1>0, <1>5 DEF Schema!HealEvaluation, Healing
  <2>2. Schema!Tables \subseteq Schema!Present'
    BY <1>0, <2>1 DEF ApplicationOf
  <2>3. ~Schema!Doubtful'
    BY <1>5, HealedRuns
  <2> QED
    BY <2>1, <2>2, <2>3 DEF ApplicationOf, Healing, Serves
<1>6. CASE Schema!FailApplication(a)
  <2>1. stage'[a] = "failed"
    BY <1>0, <1>6 DEF Schema!FailApplication
  <2> QED
    BY <2>1 DEF ApplicationOf, Healing, Serves
<1>7. CASE Schema!HealCounter(a)
  <2>1. /\ stage[a] = "counter" /\ stage'[a] = "serving" /\ sequence' = sequence
        /\ counter' = Schema!Max({1, counter} \cup {s + 1 : s \in Schema!Range(sequence)})
    BY <1>0, <1>7 DEF Schema!HealCounter
  <2>2. ~Schema!Doubtful /\ Schema!Tables \subseteq Schema!Present'
    BY <1>0, <2>1 DEF ApplicationOf, Serves, Healing
  <2>3. ~Schema!Doubtful'
    BY <2>2, NumbersStay
  <2>4. counter' \in Nat /\ counter' >= 1 /\ \A i \in DOMAIN sequence : counter' > sequence[i]
    BY <2>1, CounterIsLarge
  <2>5. Schema!CounterValid'
    <3>1. Schema!CounterValid' <=> counter' > 0 /\
              \A i \in DOMAIN sequence' : counter' > sequence'[i]
      BY AheadNext DEF Ahead
    <3> QED
      BY <2>1, <2>4, <3>1
  <2> QED
    BY <2>1, <2>2, <2>3, <2>5 DEF ApplicationOf, Healing, Serves
<1> QED
  BY <1>1, <1>2, <1>3, <1>4, <1>5, <1>6, <1>7 DEF Schema!Heal

\* No step takes from an application what it has created or healed.
LEMMA ApplicationsStep ==
  ASSUME SchemaTypes, Applications, Transacts, Schema!Next
  PROVE  Applications'
<1>1. SchemaTypes' /\ Schema!Present \subseteq Schema!Present'
  BY SchemaTypesStep
<1>2. ASSUME NEW b \in Apps PROVE ApplicationOf(b)'
  <2>1. CASE Schema!RecordRun \/ Schema!OldAnswer
    BY <1>1, <2>1, RunsFrame, ApplicationStays
  <2>2. ASSUME NEW p \in Migrators \cup Apps, Schema!KillProcess(p) PROVE ApplicationOf(b)'
    BY <1>1, <2>2, DeathFrame, ApplicationStays
  <2>3. ASSUME NEW m \in Migrators, Schema!StartMigrator(m) \/ Schema!Migrate(m) PROVE
                   ApplicationOf(b)'
    <3>1. b \in (Migrators \cup Apps) \ {m}
      BY SchemaConstants
    <3> QED
      BY <1>1, <2>3, <3>1, MigratorFrame, ApplicationStays
  <2>4. ASSUME NEW a \in Apps, Schema!StartApplication(a) \/ Schema!Heal(a) PROVE ApplicationOf(b)'
    <3>1. CASE a = b
      BY <1>1, <2>4, <3>1, ApplicationMoves
    <3>2. CASE a # b
      BY <1>1, <2>4, <3>2, ApplicationFrame, ApplicationStays
    <3> QED
      BY <3>1, <3>2
  <2> QED
    BY <2>1, <2>2, <2>3, <2>4 DEF Schema!Next, Schema!Work
<1> QED
  BY <1>2 DEF Applications, ApplicationOf

\* What a classification leads to.
LEMMA ClassifyCases ==
  ASSUME SchemaTypes, NEW m \in Migrators, Schema!Classify(m)
  PROVE  \/ stage'[m] = "release" /\ Schema!Verdict = "refuse" /\ work'[m] = Schema!Idle
         \/ /\ stage'[m] = "upgrade" /\ work'[m].items = {} /\ Schema!Verdict # "refuse"
            /\ \/ ~version.table /\ Schema!Present = {} /\ work'[m].rev = 0
               \/ ~version.table /\ Schema!ValidBaseline /\ work'[m].rev = 1
               \/ /\ version.table /\ Schema!Readable /\ work'[m].rev \in 1..9
                  /\ version.rows = {work'[m].rev}
<1> USE DEF SchemaTypes, StageTypes, Schema!At
<1>1. stage[m] = "classify" /\ work[m] = Schema!Idle /\ m \in DOMAIN stage
  BY DEF Schema!Classify
<1>2. CASE Schema!Verdict = "refuse"
  BY <1>1, <1>2 DEF Schema!Classify
<1>3. CASE Schema!Verdict # "refuse"
  <2> DEFINE r == IF Schema!Verdict = "stamp" THEN 1 ELSE Schema!CurrentRevision
  <2>1. stage' = [stage EXCEPT ![m] = "upgrade"] /\ work' = [work EXCEPT ![m].rev = r]
    BY <1>3 DEF Schema!Classify
  <2> HIDE DEF r
  <2>2. stage'[m] = "upgrade" /\ work'[m].items = {} /\ work'[m].rev = r
    BY <1>1, <2>1 DEF Schema!Idle
  <2>3. CASE ~version.table /\ Schema!Present = {}
    <3>1. Schema!Verdict = "upgrade" /\ version.rows = {}
      BY <2>3 DEF Schema!Verdict, DatabaseTypes
    <3>2. r = 0
      BY <3>1, CurrentNone DEF r
    <3> QED
      BY <1>3, <2>2, <2>3, <3>2
  <2>4. CASE ~version.table /\ Schema!Present # {}
    <3>1. Schema!Verdict = "stamp" /\ Schema!ValidBaseline
      BY <1>3, <2>4 DEF Schema!Verdict
    <3> QED
      BY <1>3, <2>2, <2>4, <3>1 DEF r
  <2>5. CASE version.table
    <3>1. Schema!Readable /\ Schema!Verdict = "upgrade"
      BY <1>3, <2>5 DEF Schema!Verdict
    <3>2. PICK s \in 1..9 : version.rows = {s}
      BY <3>1, RevisionData DEF Schema!Readable
    <3>3. r = s
      BY <3>1, <3>2, CurrentIs DEF r
    <3> QED
      BY <1>3, <2>2, <2>5, <3>1, <3>2, <3>3
  <2> QED
    BY <2>3, <2>4, <2>5
<1> QED
  BY <1>2, <1>3

\* A baseline that is valid is all there, each item as its revision makes it.
LEMMA BaselineIsExact ==
  ASSUME OddItems, Schema!ValidBaseline
  PROVE  odd = {} /\ exact = Schema!Baseline
<1>1. ASSUME NEW o \in odd PROVE FALSE
  <2>1. o.how \in Schema!Fingerprinted \cup Schema!Catalogued
    BY <1>1 DEF OddItems
  <2> QED
    BY <1>1, <2>1 DEF Schema!ValidBaseline, Schema!Differs
<1>2. odd = {}
  BY <1>1
<1> QED
  BY <1>2 DEF Schema!ValidBaseline, Schema!Present

\* What is out of order is not accepted: a baseline with more or with less, with
\* an item in another form, or with a counter that is behind.
LEMMA CondemnedRefused ==
  ASSUME SchemaTypes, OddItems, Condemned
  PROVE  Schema!Verdict = "refuse"
<1>1. CASE version.table /\ ~Schema!Readable
  BY <1>1 DEF Schema!Verdict
<1>2. CASE Schema!Present # {} /\ Unlike /\ (version.table => version.rows = {1})
  <2>1. ~Schema!ValidBaseline
    <3> SUFFICES ASSUME Schema!ValidBaseline PROVE FALSE
      OBVIOUS
    <3>1. odd = {} /\ Schema!Present = Schema!Baseline
      BY BaselineIsExact DEF Schema!ValidBaseline
    <3>2. ~(Schema!Tables \subseteq Schema!Present) /\ "structured_previews" \notin Schema!Present
          /\ Schema!EmbeddingColumn \subseteq Schema!Present
      BY <3>1, ItemData, TableData
    <3>3. ~(counter = 1 /\ 1 \in Schema!Range(sequence))
      <4>1. Ahead
        BY AheadNow DEF Schema!ValidBaseline
      <4>2. ASSUME counter = 1, 1 \in Schema!Range(sequence) PROVE FALSE
        <5>1. PICK i \in DOMAIN sequence : sequence[i] = 1
          BY <4>2 DEF Schema!Range
        <5>2. counter > sequence[i]
          BY <4>1 DEF Ahead
        <5> QED
          BY <4>2, <5>1, <5>2
      <4> QED
        BY <4>2
    <3> QED
      BY <1>2, <3>1, <3>2, <3>3 DEF Unlike
  <2>2. CASE version.table
    <3>1. Schema!CurrentRevision = 1
      BY <1>2, <2>2, CurrentIs
    <3> QED
      BY <2>1, <2>2, <3>1 DEF Schema!Verdict
  <2>3. CASE ~version.table
    BY <1>2, <2>1, <2>3 DEF Schema!Verdict
  <2> QED
    BY <2>2, <2>3
<1> QED
  BY <1>1, <1>2 DEF Condemned

\* Only one migrator works at a time.
LEMMA OneTransaction ==
  ASSUME SchemaTypes, NEW m \in Migrators, NEW n \in Migrators,
         stage[m] \in Migrating, stage[n] \in Migrating
  PROVE  m = n
  BY DEF SchemaTypes, StageTypes

\* What a transaction creates nobody else does.
LEMMA CountersApart ==
  ASSUME SchemaTypes, Applications, Transacts, Schema!Next,
         NEW m \in Migrators, ~Schema!CommitMigration(m), "evaluation_counters" \in work[m].items
  PROVE  "evaluation_counters" \notin Schema!Present'
<1> DEFINE c == "evaluation_counters"
<1>0. c \notin Schema!Present /\ c \in Schema!BaselineTables /\ c \notin Healed
  BY ItemData DEF Transacts
<1> HIDE DEF c
<1>00. \A o \in odd : o.item # c
  BY <1>0 DEF Schema!Present
<1>1. CASE Rests
  BY <1>0, <1>1 DEF Rests, Schema!Present, c
<1>2. ASSUME NEW n \in Migrators, Schema!CommitMigration(n) PROVE FALSE
  <2>1. stage[n] = "upgrade"
    BY <1>2 DEF Schema!CommitMigration, Schema!At
  <2>2. stage[m] = "upgrade"
    BY DEF SchemaTypes, StageTypes, Schema!Idle
  <2> QED
    BY <1>2, <2>1, <2>2, OneTransaction DEF Migrating
<1>3. ASSUME NEW a \in Apps, Schema!CreateTables(a) PROVE c \notin Schema!Present'
  <2>1. /\ missing[a] \cap Schema!Pending = {} /\ exact' = exact \cup Schema!WithColumns(missing[a])
        /\ odd' = odd
    BY <1>3 DEF Schema!CreateTables, Schema!Waits
  <2>2. c \notin missing[a]
    BY <2>1 DEF Schema!Pending, c
  <2>3. c \notin Schema!WithColumns(missing[a])
    BY <2>2, TableData DEF Schema!WithColumns, c
  <2> QED
    BY <1>0, <2>1, <2>3 DEF Schema!Present
<1>4. ASSUME NEW a \in Apps, Schema!HealUpload(a) PROVE c \notin Schema!Present'
  <2>1. /\ exact' = exact /\ odd' = odd \cup {[item |-> i, how |-> "order"] : i \in missing[a]}
        /\ missing[a] \subseteq Schema!UploadColumns
    BY <1>4 DEF Schema!HealUpload, Applications, Schema!At
  <2>2. \A o \in odd' : o.item # c
    BY <1>0, <1>00, <2>1, ItemData
  <2> QED
    BY <1>0, <2>1, <2>2 DEF Schema!Present
<1>5. ASSUME NEW a \in Apps, Schema!HealEmbedding(a) PROVE c \notin Schema!Present'
  <2>1. exact' = exact \cup missing[a] /\ odd' = odd /\ missing[a] \subseteq Schema!EmbeddingColumn
    BY <1>5 DEF Schema!HealEmbedding, Applications, Schema!At
  <2>2. c \notin missing[a]
    BY <1>0, <2>1, ItemData
  <2> QED
    BY <1>0, <2>1, <2>2 DEF Schema!Present
<1>6. ASSUME NEW a \in Apps, Schema!HealEvaluation(a) PROVE c \notin Schema!Present'
  <2>1. exact' = exact \cup {Schema!SequenceIndex}
        /\ missing[a] \subseteq Schema!EvaluationColumns \cup {Schema!SequenceIndex}
    BY <1>6 DEF Schema!HealEvaluation, Applications, Schema!At
  <2>2. ASSUME NEW o \in odd' PROVE o \in odd \/ o.item \in missing[a]
    BY <1>6, <2>2 DEF Schema!HealEvaluation
  <2>3. c \notin missing[a] /\ c # Schema!SequenceIndex
    BY <1>0, <2>1, ItemData
  <2> QED
    BY <1>0, <1>00, <2>1, <2>2, <2>3 DEF Schema!Present
<1>7. CASE (\E a \in Apps : Schema!HealCounter(a)) \/ Schema!RecordRun \/ Schema!OldAnswer
  BY <1>0, <1>7 DEF Schema!HealCounter, Schema!RecordRun, Schema!OldAnswer, Schema!Present, c
<1> QED
  BY StepCases, <1>1, <1>2, <1>3, <1>4, <1>5, <1>6, <1>7 DEF c

\* A migrator's transaction starts from the revision the database is at, and
\* has every revision after it.
TransactionOf(m) ==
    /\ stage[m] = "upgrade" =>
         /\ Schema!UpTo(work[m].rev) \subseteq exact \cup work[m].items
         /\ work[m].items # {} => Schema!Revision[work[m].rev] \subseteq work[m].items
         /\ work[m].items = {} /\ work[m].rev = Schema!HeadRevision =>
                version.rows = {Schema!HeadRevision}
    /\ "evaluation_counters" \in work[m].items => "evaluation_counters" \notin Schema!Present
    /\ work[m].items \cap Healed # {} => "evaluation_counters" \in work[m].items
    /\ stage[m] \in {"done", "ok"} => version.rows = {Schema!HeadRevision}
LEMMA TransactionStays ==
  ASSUME SchemaTypes, Applications, Transacts, Schema!Next,
         NEW m \in Migrators, ~Schema!CommitMigration(m),
         stage'[m] \in {stage[m], "off"}, work'[m] \in {work[m], Schema!Idle},
         stage'[m] # "off" => work'[m] = work[m]
  PROVE  TransactionOf(m)'
<1>1. TransactionOf(m)
  BY DEF Transacts, TransactionOf
<1>2. exact \subseteq exact'
  BY VersionStays
<1>3. "evaluation_counters" \in work[m].items => "evaluation_counters" \notin Schema!Present'
  BY CountersApart
<1>4. CASE work'[m] = Schema!Idle /\ stage'[m] = "off"
  BY <1>4 DEF TransactionOf, Schema!Idle
<1>5. CASE work'[m] = work[m] /\ version' = version
  BY <1>1, <1>2, <1>3, <1>5 DEF TransactionOf
<1>6. CASE work'[m] = work[m] /\ \E n \in Migrators : Schema!CommitMigration(n)
  <2>1. PICK n \in Migrators : Schema!CommitMigration(n)
    BY <1>6
  <2>2. stage[n] = "upgrade" /\ version'.rows = {Schema!HeadRevision}
    BY <2>1 DEF Schema!CommitMigration, Schema!Committed, Schema!At
  <2>3. stage[m] # "upgrade"
    BY <2>1, <2>2, OneTransaction DEF Migrating
  <2> QED
    BY <1>1, <1>3, <1>6, <2>2, <2>3 DEF TransactionOf
<1> QED
  BY <1>4, <1>5, <1>6, VersionStays

LEMMA TransactionMoves ==
  ASSUME SchemaTypes, OddItems, Applications, Transacts, Disordered, Whole, Schema!Next,
         NEW m \in Migrators, Schema!StartMigrator(m) \/ Schema!Migrate(m)
  PROVE  TransactionOf(m)'
<1> USE DEF Schema!At
<1>0. TransactionOf(m) /\ m \in DOMAIN stage /\ m \in DOMAIN work
  BY DEF Transacts, TransactionOf, SchemaTypes, StageTypes
<1>00. stage[m] # "upgrade" => work[m] = Schema!Idle
  BY DEF SchemaTypes, StageTypes
<1>1. CASE Schema!StartMigrator(m) \/ Schema!TakeLock(m)
  <2>1. work' = work /\ stage'[m] \in {"lock", "classify"} /\ work[m] = Schema!Idle
    BY <1>0, <1>00, <1>1 DEF Schema!StartMigrator, Schema!TakeLock
  <2> QED
    BY <2>1 DEF TransactionOf, Schema!Idle
<1>2. CASE Schema!Classify(m)
  <2>1. CASE stage'[m] = "release" /\ work'[m] = Schema!Idle
    BY <2>1 DEF TransactionOf, Schema!Idle
  <2>2. CASE /\ stage'[m] = "upgrade" /\ work'[m].items = {} /\ Schema!Verdict # "refuse"
             /\ \/ ~version.table /\ Schema!Present = {} /\ work'[m].rev = 0
                \/ ~version.table /\ Schema!ValidBaseline /\ work'[m].rev = 1
                \/ /\ version.table /\ Schema!Readable /\ work'[m].rev \in 1..9
                   /\ version.rows = {work'[m].rev}
    <3>1. exact' = exact /\ version' = version
      BY <1>2, MigratorRests DEF Rests
    <3>2. work'[m].rev = Schema!HeadRevision => version'.rows = {Schema!HeadRevision}
      BY <2>2, <3>1, RevisionData
    <3>3. Schema!UpTo(work'[m].rev) \subseteq exact'
      <4>1. CASE work'[m].rev = 0
        BY <4>1, RevisionsAccumulate
      <4>2. CASE Schema!ValidBaseline /\ work'[m].rev = 1
        BY <3>1, <4>2, BaselineIsExact, RevisionsAccumulate
      <4>3. CASE version.table /\ version.rows = {work'[m].rev}
        <5>1. origin # "drifted"
          BY <2>2, <4>3, CondemnedRefused DEF Disordered
        <5> QED
          BY <3>1, <4>3, <5>1 DEF Whole
      <4> QED
        BY <2>2, <4>1, <4>2, <4>3
    <3> QED
      BY <2>2, <3>2, <3>3 DEF TransactionOf
  <2> QED
    BY <1>2, <2>1, <2>2, ClassifyCases
<1>3. CASE Schema!ApplyRevision(m)
  <2> DEFINE r == work[m].rev
             items == work[m].items
  <2>1. /\ stage[m] = "upgrade" /\ stage'[m] = "upgrade"
        /\ work' = [work EXCEPT ![m] = [items |-> @.items \cup Schema!Revision[@.rev + 1],
               rev |-> @.rev + 1]]
        /\ Schema!Revision[r + 1] \cap Schema!Present = {}
    BY <1>0, <1>3 DEF Schema!ApplyRevision, Schema!Clashes
  <2>2. work'[m].rev = r + 1 /\ work'[m].items = items \cup Schema!Revision[r + 1]
    BY <1>0, <2>1
  <2>3. r \in 0..8
    BY <1>3, RevisionData DEF Schema!ApplyRevision, SchemaTypes, StageTypes
  <2>4. exact' = exact /\ Schema!Present' = Schema!Present
    BY <1>3, MigratorRests DEF Rests, Schema!Present
  <2>5. Schema!UpTo(r) \subseteq exact \cup items
    BY <1>0, <2>1 DEF TransactionOf
  <2>6. Schema!UpTo(r + 1) \subseteq exact' \cup work'[m].items
    BY <2>2, <2>3, <2>4, <2>5, RevisionsAccumulate
  <2>7. r + 1 = Schema!HeadRevision => work'[m].items # {}
    <3>1. Schema!RouteAudit # {}
      BY DEF Schema!RouteAudit
    <3> QED
      BY <2>2, <3>1, RevisionData
  <2>8. "evaluation_counters" \in work'[m].items => "evaluation_counters" \notin Schema!Present'
    BY <1>0, <2>1, <2>2, <2>4 DEF TransactionOf
  <2>9. work'[m].items \cap Healed # {} => "evaluation_counters" \in work'[m].items
    <3>1. CASE r = 0
      <4>1. "evaluation_counters" \in Schema!Revision[r + 1]
        BY <3>1, RevisionData, ItemData
      <4> QED
        BY <2>2, <4>1
    <3>2. CASE r > 0
      <4>1. r + 1 \in 2..9
        BY <2>3, <3>2
      <4>2. Schema!Revision[r + 1] \cap Healed = {}
        BY <4>1, LaterRevisions
      <4> QED
        BY <1>0, <2>2, <4>2 DEF TransactionOf
    <3> QED
      BY <2>3, <3>1, <3>2
  <2> HIDE DEF r, items
  <2> QED
    BY <2>1, <2>2, <2>6, <2>7, <2>8, <2>9 DEF TransactionOf
<1>4. CASE Schema!FailRevision(m)
  <2>1. work'[m] = Schema!Idle /\ stage'[m] = "release"
    BY <1>0, <1>4 DEF Schema!FailRevision
  <2> QED
    BY <2>1 DEF TransactionOf, Schema!Idle
<1>5. CASE Schema!CommitMigration(m)
  <2>1. work'[m] = Schema!Idle /\ stage'[m] \in {"done", "release"} /\
            version'.rows = {Schema!HeadRevision}
    BY <1>0, <1>5 DEF Schema!CommitMigration, Schema!Committed
  <2> QED
    BY <2>1 DEF TransactionOf, Schema!Idle
<1>6. CASE Schema!ReleaseLock(m)
  <2>1. /\ work' = work /\ version' = version /\ work[m] = Schema!Idle
        /\ (stage[m] = "done" /\ stage'[m] = "ok") \/ stage'[m] = "failed"
    BY <1>0, <1>00, <1>6 DEF Schema!ReleaseLock, Schema!database
  <2> QED
    BY <1>0, <2>1 DEF TransactionOf, Schema!Idle
<1> QED
  BY <1>1, <1>2, <1>3, <1>4, <1>5, <1>6 DEF Schema!Migrate

\* No step takes from a migrator what it has applied.
LEMMA TransactsStep ==
  ASSUME SchemaTypes, OddItems, Applications, Transacts, Disordered, Whole, Schema!Next
  PROVE  Transacts'
<1>1. ASSUME NEW n \in Migrators PROVE TransactionOf(n)'
  <2>0. Schema!CommitMigration(n) => TransactionOf(n)'
    BY TransactionMoves DEF Schema!Migrate
  <2> SUFFICES ASSUME ~Schema!CommitMigration(n) PROVE TransactionOf(n)'
    BY <2>0
  <2>1. CASE Schema!RecordRun \/ Schema!OldAnswer
    BY <2>1, RunsFrame, TransactionStays
  <2>2. ASSUME NEW p \in Migrators \cup Apps, Schema!KillProcess(p) PROVE TransactionOf(n)'
    BY <2>2, DeathFrame, TransactionStays
  <2>3. ASSUME NEW m \in Migrators, Schema!StartMigrator(m) \/ Schema!Migrate(m) PROVE
                   TransactionOf(n)'
    <3>1. CASE m = n
      BY <2>3, <3>1, TransactionMoves
    <3>2. CASE m # n
      BY <2>3, <3>2, MigratorFrame, TransactionStays
    <3> QED
      BY <3>1, <3>2
  <2>4. ASSUME NEW a \in Apps, Schema!StartApplication(a) \/ Schema!Heal(a) PROVE TransactionOf(n)'
    <3>1. n \in (Migrators \cup Apps) \ {a}
      BY SchemaConstants
    <3> QED
      BY <2>4, <3>1, ApplicationFrame, TransactionStays
  <2> QED
    BY <2>1, <2>2, <2>3, <2>4 DEF Schema!Next, Schema!Work
<1> QED
  BY <1>1 DEF Transacts, TransactionOf

\* Where a migrator may go: to its transaction by a classification only, and to
\* success by a commit only.
LEMMA MigratorPaths ==
  ASSUME SchemaTypes, Schema!Next, NEW m \in Migrators
  PROVE  /\ stage'[m] = "upgrade" => stage[m] = "upgrade" \/ Schema!Classify(m)
         /\ stage'[m] = "done" => stage[m] \in {"done", "upgrade"}
         /\ stage'[m] = "ok" => stage[m] \in {"ok", "done"}
<1> USE DEF SchemaTypes, StageTypes, Schema!At
<1>1. ASSUME NEW n \in Migrators, Schema!StartMigrator(n) \/ Schema!Migrate(n), n # m
      PROVE  stage'[m] = stage[m]
  BY <1>1, MigratorFrame
<1>2. ASSUME NEW a \in Apps, Schema!StartApplication(a) \/ Schema!Heal(a)
      PROVE  stage'[m] = stage[m]
  <2>1. m # a
    BY SchemaConstants
  <2> QED
    BY <1>2, <2>1, ApplicationFrame
<1>3. ASSUME NEW p \in Migrators \cup Apps, Schema!KillProcess(p)
      PROVE  stage'[m] \in {stage[m], "off"}
  BY <1>3, DeathFrame
<1>4. ASSUME Schema!RecordRun \/ Schema!OldAnswer PROVE stage' = stage
  BY <1>4, RunsFrame
<1>5. CASE Schema!StartMigrator(m) \/ Schema!TakeLock(m)
  BY <1>5 DEF Schema!StartMigrator, Schema!TakeLock
<1>6. CASE Schema!Classify(m)
  BY <1>6 DEF Schema!Classify
<1>7. CASE Schema!ApplyRevision(m) \/ Schema!FailRevision(m)
  BY <1>7 DEF Schema!ApplyRevision, Schema!FailRevision
<1>8. CASE Schema!CommitMigration(m) \/ Schema!ReleaseLock(m)
  BY <1>8 DEF Schema!CommitMigration, Schema!ReleaseLock
<1>9. ASSUME Schema!StartMigrator(m) \/ Schema!Migrate(m)
      PROVE  /\ stage'[m] = "upgrade" => stage[m] = "upgrade" \/ Schema!Classify(m)
             /\ stage'[m] = "done" => stage[m] \in {"done", "upgrade"}
             /\ stage'[m] = "ok" => stage[m] \in {"ok", "done"}
  BY <1>5, <1>6, <1>7, <1>8, <1>9 DEF Schema!Migrate
<1>10. stage'[m] \in {stage[m], "off"} \/ Schema!StartMigrator(m) \/ Schema!Migrate(m)
  <2>1. CASE \E n \in Migrators : Schema!StartMigrator(n) \/ Schema!Migrate(n)
    BY <1>1, <2>1
  <2>2. CASE \E a \in Apps : Schema!StartApplication(a) \/ Schema!Heal(a)
    BY <1>2, <2>2
  <2>3. CASE \E p \in Migrators \cup Apps : Schema!KillProcess(p)
    BY <1>3, <2>3
  <2>4. CASE Schema!RecordRun \/ Schema!OldAnswer
    BY <1>4, <2>4
  <2> QED
    BY <2>1, <2>2, <2>3, <2>4, Zenon DEF Schema!Next, Schema!Work
<1> QED
  BY <1>9, <1>10

\* What is wrong with a database that was found out of order stays wrong.
LEMMA UnlikeStays ==
  ASSUME SchemaTypes, Applications, Schema!Next, Unlike,
             \A m \in Migrators : ~Schema!CommitMigration(m)
  PROVE  Unlike'
<1>0. Schema!Present \subseteq Schema!Present'
  BY SchemaTypesStep
<1>1. CASE Rests
  BY <1>1 DEF Rests, Unlike, Schema!Present
<1>2. ASSUME NEW a \in Apps, Schema!CreateTables(a) PROVE Unlike'
  <2>1. Schema!Tables \subseteq Schema!Present \cup missing[a] /\ missing[a] \subseteq exact'
    BY <1>2 DEF Schema!CreateTables, Schema!WithColumns, Applications, Schema!At
  <2>2. Schema!Tables \subseteq Schema!Present'
    BY <1>0, <2>1 DEF Schema!Present
  <2> QED
    BY <2>2 DEF Unlike
<1>3. ASSUME NEW a \in Apps,
             Schema!HealUpload(a) \/ Schema!HealEmbedding(a) \/ Schema!HealEvaluation(a) \/
             Schema!HealCounter(a)
      PROVE  Unlike'
  <2>1. stage[a] \in Healing
    BY <1>3 DEF Schema!HealUpload, Schema!HealEmbedding, Schema!HealEvaluation,
       Schema!HealCounter, Schema!At, Healing, Serves
  <2>2. Schema!Tables \subseteq Schema!Present'
    BY <1>0, <2>1 DEF Applications
  <2> QED
    BY <2>2 DEF Unlike
<1>4. CASE Schema!RecordRun
  <2>1. /\ counter \notin Schema!Range(sequence) /\ exact' = exact /\ odd' = odd
    BY <1>4 DEF Schema!RecordRun
  <2>2. Schema!Present' = Schema!Present
    BY <2>1 DEF Schema!Present
  <2> QED
    BY <2>1, <2>2 DEF Unlike
<1>5. CASE Schema!OldAnswer
  BY <1>5 DEF Schema!OldAnswer, Unlike, Schema!Present
<1> QED
  BY StepCases, <1>1, <1>2, <1>3, <1>4, <1>5

\* A database that was found out of order stays condemned: no migrator gets
\* past the classification.
LEMMA DisorderedStep ==
  ASSUME SchemaTypes, OddItems, Applications, Disordered, Schema!Next
  PROVE  Disordered'
<1> SUFFICES ASSUME origin' \in {"drifted", "legacy"}
             PROVE  /\ Condemned'
                    /\ \A m \in Migrators : stage'[m] \notin {"upgrade", "done", "ok"}
                    /\ origin' = "legacy" => ~version'.table
                    /\ version'.rows # {Schema!HeadRevision}
  BY DEF Disordered
<1>1. /\ origin' = origin /\ Condemned
      /\ \A m \in Migrators : stage[m] \notin {"upgrade", "done", "ok"}
      /\ origin = "legacy" => ~version.table
      /\ version.rows # {Schema!HeadRevision}
  BY VersionStays DEF Disordered
<1>2. \A m \in Migrators : ~Schema!CommitMigration(m)
  BY <1>1 DEF Schema!CommitMigration, Schema!At
<1>3. version' = version
  BY <1>2, VersionStays
<1>4. Condemned'
  <2>1. Schema!Readable' <=> Schema!Readable
    BY <1>3 DEF Schema!Readable
  <2>2. Schema!Present \subseteq Schema!Present' /\ (Unlike => Unlike')
    BY <1>2, SchemaTypesStep, UnlikeStays
  <2> QED
    BY <1>1, <1>3, <2>1, <2>2 DEF Condemned
<1>5. ASSUME NEW m \in Migrators PROVE stage'[m] \notin {"upgrade", "done", "ok"}
  <2>1. Schema!Classify(m) => stage'[m] # "upgrade"
    BY <1>1, CondemnedRefused, ClassifyCases
  <2> QED
    BY <1>1, <2>1, MigratorPaths
<1> QED
  BY <1>1, <1>3, <1>4, <1>5

\* A database that was found in order, as long as no application was started
\* and nothing failed: only a migrator, a run or an older API writes to it.
LEMMA UndisturbedBefore ==
  ASSUME SchemaTypes, Schema!Next, Undisturbed'
  PROVE  /\ Undisturbed
         /\ \/ \E m \in Migrators : Schema!StartMigrator(m) \/ Schema!Migrate(m)
            \/ Schema!RecordRun \/ Schema!OldAnswer
<1> USE DEF SchemaTypes, StageTypes
<1>1. ASSUME NEW p \in Migrators \cup Apps, Schema!KillProcess(p) PROVE FALSE
  <2>1. failures' = failures + 1 /\ failures \in Nat
    BY <1>1, DeathFrame
  <2> QED
    BY <2>1 DEF Undisturbed
<1>2. ASSUME NEW a \in Apps, Schema!StartApplication(a) PROVE FALSE
  <2>1. stage'[a] = "create"
    BY <1>2 DEF Schema!StartApplication, Schema!At
  <2> QED
    BY <2>1 DEF Undisturbed
<1>3. ASSUME NEW a \in Apps, Schema!Heal(a) PROVE FALSE
  <2>1. stage'[a] # "off"
    <3>1. CASE Schema!Look(a)
      BY <3>1, LookCases
    <3>2. CASE Schema!CreateTables(a) \/ Schema!HealUpload(a) \/ Schema!HealEmbedding(a)
      BY <3>2 DEF Schema!CreateTables, Schema!HealUpload, Schema!HealEmbedding, Schema!At
    <3>3. CASE Schema!HealEvaluation(a) \/ Schema!HealCounter(a)
      BY <3>3 DEF Schema!HealEvaluation, Schema!HealCounter, Schema!At
    <3>4. CASE Schema!FailApplication(a)
      BY <3>4 DEF Schema!FailApplication, Schema!At
    <3> QED
      BY <1>3, <3>1, <3>2, <3>3, <3>4 DEF Schema!Heal
  <2> QED
    BY <2>1 DEF Undisturbed
<1>4. ASSUME NEW m \in Migrators, Schema!StartMigrator(m) \/ Schema!Migrate(m) PROVE Undisturbed
  <2>1. \A a \in Apps : stage'[a] = stage[a]
    BY <1>4, MigratorFrame, SchemaConstants
  <2>2. failures' \in {failures, failures + 1} /\ failures \in Nat
    <3>1. CASE Schema!StartMigrator(m) \/ Schema!TakeLock(m) \/ Schema!Classify(m) \/
                   Schema!ApplyRevision(m)
      BY <3>1 DEF Schema!StartMigrator, Schema!TakeLock, Schema!Classify, Schema!ApplyRevision
    <3>2. CASE Schema!FailRevision(m) \/ Schema!CommitMigration(m) \/ Schema!ReleaseLock(m)
      BY <3>2 DEF Schema!FailRevision, Schema!CommitMigration, Schema!ReleaseLock
    <3> QED
      BY <1>4, <3>1, <3>2 DEF Schema!Migrate
  <2>3. failures = 0
    BY <2>2 DEF Undisturbed
  <2> QED
    BY <2>1, <2>3 DEF Undisturbed
<1>5. ASSUME Schema!RecordRun \/ Schema!OldAnswer PROVE Undisturbed
  BY <1>5, RunsFrame DEF Undisturbed
<1>6. ASSUME Schema!Work PROVE \E m \in Migrators : Schema!Migrate(m)
  BY <1>3, <1>6 DEF Schema!Work
<1> QED
  <2>1. \/ \E m \in Migrators : Schema!StartMigrator(m) \/ Schema!Migrate(m)
        \/ Schema!RecordRun \/ Schema!OldAnswer
    BY <1>1, <1>2, <1>6 DEF Schema!Next
  <2> QED
    BY <1>4, <1>5, <2>1

\* Then it is accepted, and no statement can fail.
LEMMA InOrderAccepted ==
  ASSUME SchemaTypes, InOrder
  PROVE  Schema!Verdict # "refuse"
<1>1. odd = {} /\ Schema!Present = exact
  BY DEF InOrder, Schema!Present
<1>2. exact = Schema!Baseline => Schema!ValidBaseline
  BY <1>1 DEF InOrder, Schema!ValidBaseline
<1>3. CASE ~version.table
  <2>1. exact = {} \/ exact = Schema!Baseline
    BY <1>3 DEF InOrder
  <2> QED
    BY <1>1, <1>2, <1>3, <2>1 DEF Schema!Verdict
<1>4. CASE version.table
  <2>1. Schema!Readable
    BY <1>4 DEF InOrder, Schema!Readable
  <2>2. PICK r \in 1..9 : version.rows = {r} /\ exact = Schema!UpTo(r)
    BY <1>4, RevisionData DEF InOrder
  <2>3. Schema!CurrentRevision = r
    BY <2>2, CurrentIs
  <2>4. Schema!CurrentRevision = 1 => Schema!ValidBaseline
    BY <1>2, <2>2, <2>3, RevisionsAccumulate
  <2> QED
    BY <1>4, <2>1, <2>4 DEF Schema!Verdict
<1> QED
  BY <1>3, <1>4

LEMMA HeadIsMore == Schema!UpTo(9) # Schema!Baseline /\ Schema!UpTo(9) # {}
<1>1. Schema!RouteAudit \subseteq Schema!UpTo(9)
  BY RevisionData, RevisionsAccumulate
<1>2. Schema!RouteAudit # {} /\ Schema!RouteAudit \cap Schema!Baseline = {}
  BY SMTT(60) DEF Schema!RouteAudit, Schema!Baseline, Schema!BaselineTables, Schema!UploadColumns,
     Schema!EmbeddingColumn, Schema!EvaluationColumns,
     Schema!SequenceIndex
<1> QED
  BY <1>1, <1>2

\* A migrator leaves a database in order as it is, or at a later revision.
LEMMA InOrderStays ==
  ASSUME SchemaTypes, InOrder, Schema!Next, Undisturbed', NEW m \in Migrators,
         Schema!StartMigrator(m) \/ Schema!Migrate(m)
  PROVE  InOrder'
<1> USE DEF Schema!At
<1>0. /\ m \in DOMAIN stage /\ m \in DOMAIN work /\ failures \in Nat /\ failures' = 0
      /\ stage[m] # "upgrade" => work[m] = Schema!Idle
  BY DEF SchemaTypes, StageTypes, Undisturbed
<1>1. odd = {} /\ Schema!Present = exact
  BY DEF InOrder, Schema!Present
<1> DEFINE Reached(n) ==
              /\ stage[n] \notin {"release", "failed"}
              /\ stage[n] = "upgrade" => exact \cup work[n].items = Schema!UpTo(work[n].rev)
           Found0 ==
              /\ odd = {}
              /\ IF version.table
                 THEN version.sound /\ \E r \in 1..Schema!HeadRevision : version.rows = {r} /\
                 exact = Schema!UpTo(r)
                 ELSE exact \in {{}, Schema!Baseline}
              /\ exact = {} => sequence = <<>>
              /\ exact = Schema!Baseline => Schema!CounterValid
<1>2. Found0 /\ \A n \in Migrators : Reached(n)
  BY DEF InOrder
<1>3. ASSUME Rests PROVE Found0'
  BY <1>2, <1>3 DEF Rests, Schema!CounterValid
<1>4. ASSUME Rests, NEW n \in Migrators \ {m} PROVE Reached(n)'
  BY <1>2, <1>4, MigratorFrame DEF Rests
<1>5. ASSUME Rests, Reached(m)' PROVE InOrder'
  BY <1>3, <1>4, <1>5 DEF InOrder
<1> HIDE DEF Found0
<1>6. CASE Schema!StartMigrator(m) \/ Schema!TakeLock(m)
  <2>1. stage'[m] \in {"lock", "classify"}
    BY <1>0, <1>6 DEF Schema!StartMigrator, Schema!TakeLock
  <2> QED
    BY <1>5, <1>6, <2>1, MigratorRests
<1>7. CASE Schema!Classify(m)
  <2>1. /\ stage'[m] = "upgrade" /\ work'[m].items = {}
        /\ \/ ~version.table /\ Schema!Present = {} /\ work'[m].rev = 0
           \/ ~version.table /\ Schema!ValidBaseline /\ work'[m].rev = 1
           \/ /\ version.table /\ Schema!Readable /\ work'[m].rev \in 1..9
              /\ version.rows = {work'[m].rev}
    BY <1>7, ClassifyCases, InOrderAccepted
  <2>2. Rests
    BY <1>7, MigratorRests
  <2>3. exact = Schema!UpTo(work'[m].rev)
    <3>1. CASE Schema!Present = {} /\ work'[m].rev = 0
      BY <1>1, <3>1, RevisionsAccumulate
    <3>2. CASE Schema!ValidBaseline /\ work'[m].rev = 1
      BY <1>1, <3>2, RevisionsAccumulate DEF Schema!ValidBaseline
    <3>3. CASE version.table /\ version.rows = {work'[m].rev}
      BY <1>2, <3>3 DEF Found0
    <3> QED
      BY <2>1, <3>1, <3>2, <3>3
  <2>4. exact' = exact
    BY <2>2 DEF Rests
  <2> QED
    BY <1>5, <2>1, <2>2, <2>3, <2>4
<1>8. CASE Schema!ApplyRevision(m)
  <2> DEFINE r == work[m].rev
             items == work[m].items
  <2>1. /\ stage[m] = "upgrade" /\ stage'[m] = "upgrade"
        /\ work' = [work EXCEPT ![m] = [items |-> @.items \cup Schema!Revision[@.rev + 1],
               rev |-> @.rev + 1]]
    BY <1>0, <1>8 DEF Schema!ApplyRevision
  <2>2. work'[m].rev = r + 1 /\ work'[m].items = items \cup Schema!Revision[r + 1]
    BY <1>0, <2>1
  <2>3. r \in 0..8
    BY <1>8, RevisionData DEF Schema!ApplyRevision, SchemaTypes, StageTypes
  <2>4. Rests /\ exact' = exact
    BY <1>8, MigratorRests DEF Rests
  <2>5. exact \cup items = Schema!UpTo(r)
    BY <1>2, <2>1
  <2>6. exact' \cup work'[m].items = Schema!UpTo(r + 1)
    BY <2>2, <2>3, <2>4, <2>5, RevisionsAccumulate
  <2> HIDE DEF r, items
  <2> QED
    BY <1>5, <2>1, <2>2, <2>4, <2>6
<1>9. ASSUME Schema!FailRevision(m) PROVE FALSE
  <2> DEFINE r == work[m].rev
  <2>1. Schema!Clashes(m) /\ stage[m] = "upgrade"
    BY <1>0, <1>9 DEF Schema!FailRevision
  <2>2. r \in 0..8 /\ Schema!Revision[r + 1] \cap exact # {}
    BY <1>1, <2>1, RevisionData DEF Schema!Clashes, SchemaTypes, StageTypes
  <2>3. exact \subseteq Schema!UpTo(r)
    BY <1>2, <2>1
  <2> HIDE DEF r
  <2> QED
    BY <2>2, <2>3, RevisionsAreNew
<1>10. CASE Schema!CommitMigration(m)
  <2>1. /\ work[m].rev = Schema!HeadRevision /\ stage[m] = "upgrade" /\ stage'[m] = "done"
        /\ exact' = exact \cup work[m].items /\ odd' = odd
        /\ version' = [table |-> TRUE, sound |-> TRUE, rows |-> {work[m].rev}]
    BY <1>0, <1>10 DEF Schema!CommitMigration, Schema!Committed
  <2>2. exact' = Schema!UpTo(9) /\ version'.table /\ version'.sound /\ version'.rows = {9}
    BY <1>2, <2>1, RevisionData
  <2>3. Found0'
    <3>1. exact' # {} /\ exact' # Schema!Baseline
      BY <2>2, HeadIsMore
    <3>2. \E r \in 1..Schema!HeadRevision : version'.rows = {r} /\ exact' = Schema!UpTo(r)
      BY <2>2, RevisionData
    <3> QED
      BY <1>1, <2>1, <2>2, <3>1, <3>2 DEF Found0
  <2>4. ASSUME NEW n \in Migrators \ {m} PROVE Reached(n)'
    <3>1. stage[n] # "upgrade"
      BY <2>1, OneTransaction DEF Migrating
    <3> QED
      BY <1>2, <1>10, <3>1, MigratorFrame DEF Schema!Migrate
  <2>5. Reached(m)'
    BY <2>1
  <2> QED
    BY <2>3, <2>4, <2>5 DEF InOrder, Found0
<1>11. CASE Schema!ReleaseLock(m)
  <2>1. stage'[m] = "ok"
    BY <1>0, <1>2, <1>11 DEF Schema!ReleaseLock
  <2> QED
    BY <1>5, <1>11, <2>1, MigratorRests
<1> QED
  BY <1>6, <1>7, <1>8, <1>9, <1>10, <1>11 DEF Schema!Migrate

\* Neither a run nor an older API puts it out of order.
LEMMA OrderedStep ==
  ASSUME SchemaTypes, SchemaTypes', Transacts, Ordered, Schema!Next
  PROVE  Ordered'
<1> SUFFICES ASSUME origin' \notin {"drifted", "legacy"}, Undisturbed' PROVE InOrder'
  BY DEF Ordered
<1>1. Undisturbed /\ InOrder
  BY UndisturbedBefore, VersionStays DEF Ordered
<1>2. CASE Schema!RecordRun
  <2>1. UNCHANGED <<exact, odd, version, stage, work>>
    BY <1>2, RunsFrame
  <2>2. exact # {}
    BY <1>2 DEF Schema!RecordRun
  <2>3. Schema!CounterValid => Schema!CounterValid'
    <3>1. SUFFICES ASSUME Schema!CounterValid PROVE Ahead'
      BY AheadNext
    <3>2. Ahead /\ sequence \in Seq(Nat) /\ counter \in Nat
      BY <3>1, AheadNow DEF SchemaTypes, DatabaseTypes
    <3>3. /\ sequence' = Append(sequence, counter) /\ counter' = counter + 1
      BY <1>2 DEF Schema!RecordRun
    <3>4. DOMAIN sequence' = 1..(Len(sequence) + 1) /\ Len(sequence) \in Nat
          /\ DOMAIN sequence = 1..Len(sequence)
      BY <3>2, <3>3
    <3>5. ASSUME NEW i \in DOMAIN sequence' PROVE counter' > sequence'[i]
      <4>1. CASE i \in DOMAIN sequence
        <5>1. sequence'[i] = sequence[i] /\ sequence[i] \in Nat /\ counter > sequence[i]
          BY <3>2, <3>3, <3>4, <4>1 DEF Ahead
        <5> QED
          BY <3>2, <3>3, <5>1
      <4>2. CASE i \notin DOMAIN sequence
        <5>1. i = Len(sequence) + 1
          BY <3>4, <4>2
        <5>2. sequence'[i] = counter
          BY <3>2, <3>3, <5>1
        <5> QED
          BY <3>2, <3>3, <5>2
      <4> QED
        BY <4>1, <4>2
    <3> QED
      BY <3>2, <3>3, <3>5 DEF Ahead
  <2> QED
    BY <1>1, <2>1, <2>2, <2>3 DEF InOrder
<1>3. CASE Schema!OldAnswer
  <2>1. UNCHANGED <<exact, odd, version, stage, work, sequence, counter>>
    BY <1>3 DEF Schema!OldAnswer
  <2> QED
    BY <1>1, <2>1 DEF InOrder, Schema!CounterValid
<1> QED
  BY <1>1, <1>2, <1>3, UndisturbedBefore, InOrderStays

-----------------------------------------------------------------------------
(* Every database that may be found, and every step.                      *)

\* What a database holds when it is found.
HoldsTypes ==
    /\ exact \subseteq Schema!UpTo(Schema!HeadRevision)
    /\ version \in [table : BOOLEAN, sound : BOOLEAN, rows : SUBSET (0..9)]
    /\ counter \in Nat /\ sequence \in {<<>>, <<1>>, <<1, 1>>, <<0, 0>>}
    /\ ~version.table => version.rows = {}
\* Every way in which a database may be found, without a version and with one.
LEMMA UnversionedTypes == Schema!Unversioned => HoldsTypes
<1> SUFFICES ASSUME Schema!Unversioned PROVE HoldsTypes
  OBVIOUS
<1>1. /\ {} \subseteq Schema!UpTo(Schema!HeadRevision) /\
             Schema!Baseline \subseteq Schema!UpTo(Schema!HeadRevision)
      /\ Schema!BaselineTables \subseteq Schema!UpTo(Schema!HeadRevision)
      /\ "structured_previews" \in Schema!UpTo(Schema!HeadRevision)
  BY RevisionsAccumulate, ItemData, TableData
<1>2. Schema!NoVersion \in [table : BOOLEAN, sound : BOOLEAN, rows : SUBSET (0..9)]
      /\ ~Schema!NoVersion.table /\ Schema!NoVersion.rows = {}
  BY DEF Schema!NoVersion
<1> HIDE DEF Schema!NoVersion
<1> DEFINE T == [table : BOOLEAN, sound : BOOLEAN, rows : SUBSET (0..9)]
           R == {<<>>, <<1>>, <<1, 1>>, <<0, 0>>}
<1>3. <<>> \in R /\ <<1>> \in R /\ <<1, 1>> \in R /\ <<0, 0>> \in R
  OBVIOUS
<1>4. Schema!NoVersion \in T
  BY <1>2
<1>5. 0 \in 0..2 /\ 1 \in 0..2 /\ 2 \in 0..2
  OBVIOUS
<1> DEFINE B == Schema!Baseline
           U == Schema!UpTo(Schema!HeadRevision)
<1>6. /\ {} \in SUBSET U /\ B \in SUBSET U /\ B \ Schema!EmbeddingColumn \in SUBSET U
      /\ B \cup {"structured_previews"} \in SUBSET U /\ B \ {Schema!SequenceIndex} \in SUBSET U
      /\ Schema!BaselineTables \in SUBSET U
  BY <1>1
<1>7. \A name, others, items, runs, next :
        /\ items \in SUBSET U /\ runs \in R /\ next \in 0..2
        /\ Schema!Found(name, items, others, Schema!NoVersion, runs, next)
        => HoldsTypes
  BY <1>2, <1>4 DEF Schema!Found, HoldsTypes
<1> HIDE DEF T, R, U
<1>8. \E name, others, items, runs, next :
        /\ items \in SUBSET U /\ runs \in R /\ next \in 0..2
        /\ Schema!Found(name, items, others, Schema!NoVersion, runs, next)
  BY <1>3, <1>5, <1>6, Zenon DEF Schema!Unversioned
<1> QED
  BY <1>7, <1>8

LEMMA VersionedTypes == Schema!Versioned => HoldsTypes
<1> SUFFICES ASSUME Schema!Versioned PROVE HoldsTypes
  OBVIOUS
<1> DEFINE T == [table : BOOLEAN, sound : BOOLEAN, rows : SUBSET (0..9)]
           R == {<<>>, <<1>>, <<1, 1>>, <<0, 0>>}
           U == Schema!UpTo(Schema!HeadRevision)
           B == Schema!Baseline
           Odd == [Schema!Managed({4}) EXCEPT !.sound = FALSE]
<1>1. /\ Schema!UpTo(1) \in SUBSET U /\ Schema!UpTo(4) \in SUBSET U /\
             Schema!UpTo(Schema!HeadRevision) \in SUBSET U
      /\ B \ Schema!EmbeddingColumn \in SUBSET U
  <2>1. B \subseteq U
    BY RevisionsAccumulate
  <2> QED
    BY <2>1, RevisionsAccumulate
<1>2. /\ {1} \in SUBSET (0..9) /\ {4} \in SUBSET (0..9) /\ {Schema!HeadRevision} \in SUBSET (0..9)
      /\ {} \in SUBSET (0..9) /\ {Schema!Unknown} \in SUBSET (0..9) /\ {3, 4} \in SUBSET (0..9)
  BY RevisionData DEF Schema!Unknown
<1>3. \A s \in SUBSET (0..9) : Schema!Managed(s) \in T /\ Schema!Managed(s).table
  BY DEF Schema!Managed
<1>4. Odd \in T /\ Odd.table
  <2>1. ASSUME NEW v \in T, v.table PROVE [v EXCEPT !.sound = FALSE] \in T
                                         /\ [v EXCEPT !.sound = FALSE].table
    BY <2>1
  <2> HIDE DEF T
  <2> QED
    BY <1>2, <1>3, <2>1, Zenon
<1>5. <<>> \in R /\ <<1>> \in R /\ 1 \in 0..2 /\ 2 \in 0..2
  OBVIOUS
<1>6. \A name, items, runs, next, v :
        /\ items \in SUBSET U /\ runs \in R /\ next \in 0..2 /\ v \in T /\ v.table
        /\ Schema!Found(name, items, {}, v, runs, next)
        => HoldsTypes
  BY DEF Schema!Found, HoldsTypes
<1> HIDE DEF T, R, U, Odd
<1>7. ASSUME NEW r \in {1, 4, Schema!HeadRevision}, Schema!Found("managed", Schema!UpTo(r), {},
                 Schema!Managed({r}), << 1 >>, 2)
      PROVE  HoldsTypes
  <2>1. Schema!UpTo(r) \in SUBSET U /\ {r} \in SUBSET (0..9)
    BY <1>1, <1>2
  <2> QED
    BY <1>3, <1>5, <1>6, <1>7, <2>1, Zenon
<1>8. CASE Schema!Found("drifted", Schema!Baseline \ Schema!EmbeddingColumn, {},
               Schema!Managed({1}), <<>>, 1)
  BY <1>1, <1>2, <1>3, <1>5, <1>6, <1>8, Zenon
<1>9. ASSUME NEW s \in {{}, {Schema!Unknown}, {3, 4}}, Schema!Found("drifted", Schema!UpTo(4), {},
                 Schema!Managed(s), <<>>, 1)
      PROVE  HoldsTypes
  <2>1. s \in SUBSET (0..9)
    BY <1>2
  <2> QED
    BY <1>1, <1>3, <1>5, <1>6, <1>9, <2>1, Zenon
<1>10. CASE Schema!Found("drifted", Schema!UpTo(4), {},
                [Schema!Managed({4}) EXCEPT !.sound = FALSE], <<>>, 1)
  <2>1. Schema!Found("drifted", Schema!UpTo(4), {}, Odd, <<>>, 1)
    BY <1>10 DEF Odd
  <2> QED
    BY <1>1, <1>4, <1>5, <1>6, <2>1, Zenon
<1> QED
  BY <1>7, <1>8, <1>9, <1>10, Zenon DEF Schema!Versioned

LEMMA InitTypes == Schema!Init => SchemaTypes
<1> SUFFICES ASSUME Schema!Init PROVE SchemaTypes
  OBVIOUS
<1>1. HoldsTypes
  BY UnversionedTypes, VersionedTypes DEF Schema!Init
<1>2. /\ sequence \in Seq(Nat) /\ 1 \in Nat /\ \A i \in DOMAIN sequence : sequence[i] <= 1
  <2>1. /\ <<>> \in Seq(Nat) /\ <<1>> \in Seq(Nat) /\ <<1, 1>> \in Seq(Nat)
        /\ <<0, 0>> \in Seq(Nat)
    OBVIOUS
  <2>2. /\ \A i \in DOMAIN <<>> : <<>>[i] <= 1
        /\ \A i \in DOMAIN <<1>> : <<1>>[i] <= 1
        /\ \A i \in DOMAIN <<1, 1>> : <<1, 1>>[i] <= 1
        /\ \A i \in DOMAIN <<0, 0>> : <<0, 0>>[i] <= 1
    OBVIOUS
  <2>3. sequence = <<>> \/ sequence = <<1>> \/ sequence = <<1, 1>> \/ sequence = <<0, 0>>
    BY <1>1 DEF HoldsTypes
  <2> QED
    BY <2>1, <2>2, <2>3, Zenon
<1>3. DatabaseTypes
  BY <1>1, <1>2 DEF HoldsTypes, DatabaseTypes, Schema!Init
<1>4. "off" \in SchemaStages /\ "off" \notin Migrating
  BY DEF SchemaStages, Migrating
<1>5. Schema!Idle \in [items : SUBSET Schema!UpTo(Schema!HeadRevision), rev : 0..9]
  BY DEF Schema!Idle
<1> HIDE DEF Schema!Idle
<1>6. /\ stage \in [Migrators \cup Apps -> SchemaStages]
      /\ missing \in [Apps -> SUBSET Schema!UpTo(Schema!HeadRevision)]
      /\ work \in [Migrators -> [items : SUBSET Schema!UpTo(Schema!HeadRevision), rev : 0..9]]
      /\ \A m \in Migrators : stage[m] = "off" /\ work[m] = Schema!Idle
  BY <1>4, <1>5 DEF Schema!Init
<1>7. session \in Migrators \cup {Schema!Nobody} /\ failures \in Nat
  BY DEF Schema!Init
<1>8. StageTypes
  BY <1>4, <1>6, <1>7 DEF StageTypes
<1> QED
  BY <1>3, <1>8 DEF SchemaTypes

\* A database is found in order or condemned.
FoundInOrder ==
    /\ odd = {}
    /\ IF version.table
       THEN version.sound /\ \E r \in 1..Schema!HeadRevision : version.rows = {r} /\
       exact = Schema!UpTo(r)
       ELSE exact \in {{}, Schema!Baseline}
    /\ exact = {} => sequence = <<>>
    /\ exact = Schema!Baseline => Schema!CounterValid
FoundOdd ==
    Condemned /\ version.rows # {Schema!HeadRevision} /\ (origin = "legacy" => ~version.table)
\* What each of them is: in order, or condemned.
LEMMA UnversionedFound ==
  ASSUME SchemaTypes, Schema!Unversioned
  PROVE  /\ OddItems /\ ~version.table
         /\ origin \in {"drifted", "legacy"} => FoundOdd
         /\ origin \notin {"drifted", "legacy"} => FoundInOrder
<1>1. ASSUME NEW name, NEW items, NEW others, NEW runs, NEW next,
             Schema!Found(name, items, others, Schema!NoVersion, runs, next)
      PROVE  ~version.table /\ version.rows = {}
  BY <1>1 DEF Schema!Found, Schema!NoVersion
<1>2. ~version.table /\ version.rows = {}
  BY <1>1, Zenon DEF Schema!Unversioned
<1>3. ASSUME odd = {} PROVE OddItems /\ Schema!Present = exact
  BY <1>3 DEF OddItems, Schema!Present
<1>4. Unlike /\ Schema!Present # {} => FoundOdd
  BY <1>2 DEF FoundOdd, Condemned
<1>5. CASE Schema!Found("empty", {}, {}, Schema!NoVersion, <<>>, 0)
  <2>1. odd = {} /\ exact = {} /\ sequence = <<>> /\ origin = "empty"
    BY <1>5 DEF Schema!Found
  <2>2. Schema!Baseline # {}
    BY ItemData
  <2> QED
    BY <1>2, <1>3, <2>1, <2>2 DEF FoundInOrder
<1>6. CASE Schema!Found("baseline", Schema!Baseline, {}, Schema!NoVersion, <<1>>, 2)
  <2>1. odd = {} /\ exact = Schema!Baseline /\ sequence = <<1>> /\ origin = "baseline" /\
            counter = 2
    BY <1>6 DEF Schema!Found
  <2>2. Schema!CounterValid
    BY <2>1, AheadNow DEF Ahead
  <2>3. Schema!Baseline # {}
    BY ItemData
  <2> QED
    BY <1>2, <1>3, <2>1, <2>2, <2>3 DEF FoundInOrder
<1>7. CASE Schema!Found("drifted", Schema!Baseline, {}, Schema!NoVersion, <<1>>, 1)
  <2>1. odd = {} /\ exact = Schema!Baseline /\ sequence = <<1>> /\ origin = "drifted" /\ counter = 1
    BY <1>7 DEF Schema!Found
  <2>2. 1 \in DOMAIN sequence /\ sequence[1] = 1
    BY <2>1
  <2>3. Unlike
    BY <2>1, <2>2 DEF Unlike, Schema!Range
  <2>4. Schema!Baseline # {}
    BY ItemData
  <2> QED
    BY <1>2, <1>3, <1>4, <2>1, <2>3, <2>4
<1>8. CASE Schema!Found("drifted", Schema!Baseline \ Schema!EmbeddingColumn, {}, Schema!NoVersion,
               <<>>, 1)
  <2>1. odd = {} /\ exact = Schema!Baseline \ Schema!EmbeddingColumn /\ origin = "drifted"
    BY <1>8 DEF Schema!Found
  <2>2. exact # {} /\ ~(Schema!EmbeddingColumn \subseteq exact)
    BY <2>1, ItemData
  <2> QED
    BY <1>2, <1>3, <1>4, <2>1, <2>2 DEF Unlike
<1>9. CASE Schema!Found("drifted", Schema!Baseline \cup {"structured_previews"}, {},
               Schema!NoVersion, <<>>, 1)
  <2>1. odd = {} /\ exact = Schema!Baseline \cup {"structured_previews"} /\ origin = "drifted"
    BY <1>9 DEF Schema!Found
  <2> QED
    BY <1>2, <1>3, <1>4, <2>1 DEF Unlike
<1>10. ASSUME NEW how \in Schema!Oddities,
              Schema!Found("drifted", Schema!Baseline \ {Schema!SequenceIndex},
              {[item |-> Schema!SequenceIndex, how |-> how]},
                    Schema!NoVersion, <<1, 1>>, 2)
       PROVE  OddItems /\ FoundOdd /\ origin = "drifted"
  <2> DEFINE o == [item |-> Schema!SequenceIndex, how |-> how]
  <2>1. odd = {o} /\ exact = Schema!Baseline \ {Schema!SequenceIndex} /\ origin = "drifted"
    BY <1>10 DEF Schema!Found
  <2>2. how \in Schema!Fingerprinted \cup Schema!Catalogued
    BY WaysData DEF Schema!Oddities
  <2>3. Schema!SequenceIndex \in Healed /\
            Schema!BaselineTables \subseteq Schema!Baseline \ {Schema!SequenceIndex}
    BY ItemData
  <2>4. o.item = Schema!SequenceIndex /\ o \in [item : Healed,
            how : Schema!Fingerprinted \cup Schema!Catalogued]
    BY <2>2, <2>3
  <2> HIDE DEF o
  <2>5. exact \subseteq Schema!Present
    BY DEF Schema!Present
  <2>6. OddItems
    BY <2>1, <2>3, <2>4, <2>5 DEF OddItems
  <2>7. Unlike /\ Schema!Present # {}
    BY <2>1, <2>4 DEF Unlike, Schema!Present
  <2> QED
    BY <1>4, <2>1, <2>6, <2>7
<1>11. CASE Schema!Found("legacy", Schema!BaselineTables, {}, Schema!NoVersion, <<0, 0>>, 0)
  <2>1. odd = {} /\ exact = Schema!BaselineTables /\ origin = "legacy"
    BY <1>11 DEF Schema!Found
  <2>2. exact # {} /\ ~(Schema!EmbeddingColumn \subseteq exact)
    BY <2>1, ItemData
  <2> QED
    BY <1>2, <1>3, <1>4, <2>1, <2>2 DEF Unlike
<1>12. CASE \E how \in Schema!Oddities :
              Schema!Found("drifted", Schema!Baseline \ {Schema!SequenceIndex},
              {[item |-> Schema!SequenceIndex, how |-> how]},
                    Schema!NoVersion, <<1, 1>>, 2)
  BY <1>2, <1>10, <1>12
<1> QED
  BY <1>5, <1>6, <1>7, <1>8, <1>9, <1>11, <1>12, Zenon DEF Schema!Unversioned

LEMMA VersionedFound ==
  ASSUME SchemaTypes, Schema!Versioned
  PROVE  /\ OddItems
         /\ \/ origin = "drifted" /\ FoundOdd
            \/ origin = "managed" /\ FoundInOrder /\ Whole
<1>3. ASSUME odd = {} PROVE OddItems /\ Schema!Present = exact
  BY <1>3 DEF OddItems, Schema!Present
<1>4. ASSUME NEW r \in {1, 4, Schema!HeadRevision},
             Schema!Found("managed", Schema!UpTo(r), {}, Schema!Managed({r}), << 1 >>, 2)
      PROVE  OddItems /\ origin = "managed" /\ FoundInOrder /\ Whole
  <2>1. /\ odd = {} /\ exact = Schema!UpTo(r) /\ sequence = <<1>> /\ origin = "managed" /\
               counter = 2
        /\ version.table /\ version.sound /\ version.rows = {r}
    BY <1>4 DEF Schema!Found, Schema!Managed
  <2>2. Schema!CounterValid
    BY <2>1, AheadNow DEF Ahead
  <2>3. r \in 1..9
    BY RevisionData
  <2>4. Schema!Revision[r] \subseteq Schema!UpTo(r) /\ Schema!Baseline \subseteq Schema!UpTo(1)
    BY <2>3, RevisionsAccumulate
  <2>5. Schema!Revision[1] \subseteq Schema!UpTo(r)
    BY <2>3 DEF Schema!UpTo
  <2>6. exact # {}
    BY <2>1, <2>5, RevisionData, ItemData
  <2> QED
    BY <1>3, <2>1, <2>2, <2>3, <2>6, RevisionData DEF FoundInOrder, Whole
<1>5. CASE Schema!Found("drifted", Schema!Baseline \ Schema!EmbeddingColumn, {},
               Schema!Managed({1}), <<>>, 1)
  <2>1. /\ odd = {} /\ exact = Schema!Baseline \ Schema!EmbeddingColumn /\ origin = "drifted"
        /\ version.rows = {1}
    BY <1>5 DEF Schema!Found, Schema!Managed
  <2>2. exact # {} /\ ~(Schema!EmbeddingColumn \subseteq exact)
    BY <2>1, ItemData
  <2>3. {1} # {Schema!HeadRevision}
    BY RevisionData
  <2> QED
    BY <1>3, <2>1, <2>2, <2>3 DEF Unlike, FoundOdd, Condemned
<1>6. ASSUME NEW s \in {{}, {Schema!Unknown}, {3, 4}}, Schema!Found("drifted", Schema!UpTo(4), {},
                 Schema!Managed(s), <<>>, 1)
      PROVE  OddItems /\ origin = "drifted" /\ FoundOdd
  <2>1. /\ odd = {} /\ origin = "drifted" /\ version.table /\ version.rows = s
    BY <1>6 DEF Schema!Found, Schema!Managed
  <2>2. \A r \in 1..9 : s # {r}
    BY DEF Schema!Unknown
  <2> QED
    BY <1>3, <2>1, <2>2, RevisionData DEF FoundOdd, Condemned, Schema!Readable
<1>7. CASE Schema!Found("drifted", Schema!UpTo(4), {},
               [Schema!Managed({4}) EXCEPT !.sound = FALSE], <<>>, 1)
  <2>1. /\ odd = {} /\ origin = "drifted" /\ version.table /\ ~version.sound /\ version.rows = {4}
    BY <1>7 DEF Schema!Found, Schema!Managed
  <2>2. {4} # {Schema!HeadRevision}
    BY RevisionData
  <2> QED
    BY <1>3, <2>1, <2>2 DEF FoundOdd, Condemned, Schema!Readable
<1> QED
  BY <1>4, <1>5, <1>6, <1>7, Zenon DEF Schema!Versioned

LEMMA InitInv == Schema!Init => SchemaInv
<1> SUFFICES ASSUME Schema!Init PROVE SchemaInv
  OBVIOUS
<1>1. SchemaTypes
  BY InitTypes
<1>2. /\ \A m \in Migrators : stage[m] = "off" /\ work[m] = Schema!Idle
      /\ \A a \in Apps : stage[a] = "off"
      /\ Schema!Unversioned \/ Schema!Versioned
      /\ ~unrouted
  BY DEF Schema!Init
<1>3. Schema!Idle.items = {}
  BY DEF Schema!Idle
<1>4. Applications /\ Transacts /\ Routed
  BY <1>2, <1>3 DEF Applications, Transacts, Routed, Healing, Serves
<1>5. /\ OddItems /\ Whole
      /\ origin \in {"drifted", "legacy"} => FoundOdd
      /\ origin \notin {"drifted", "legacy"} => FoundInOrder
  BY <1>1, <1>2, UnversionedFound, VersionedFound DEF Whole
<1>6. Disordered
  BY <1>2, <1>5 DEF Disordered, FoundOdd
<1>7. Ordered
  BY <1>2, <1>5 DEF Ordered, InOrder, FoundInOrder
<1> QED
  BY <1>1, <1>4, <1>5, <1>6, <1>7 DEF SchemaInv

LEMMA StutterKeeps == SchemaInv /\ UNCHANGED Schema!vars => SchemaInv'
<1> SUFFICES ASSUME SchemaInv, UNCHANGED Schema!vars PROVE SchemaInv'
  OBVIOUS
<1> USE DEF Schema!vars, SchemaInv
<1>1. /\ UNCHANGED <<origin, exact, odd, version, sequence, counter, unrouted, session, work,
             stage, missing, failures>>
  OBVIOUS
<1> HIDE DEF Schema!vars
<1>2. Schema!Present' = Schema!Present
  BY <1>1 DEF Schema!Present
<1>3. Schema!CounterValid' = Schema!CounterValid /\ Schema!Doubtful' = Schema!Doubtful /\
          Schema!Readable' = Schema!Readable
  BY <1>1 DEF Schema!CounterValid, Schema!Doubtful, Schema!Readable
<1>4. SchemaTypes'
  BY <1>1 DEF SchemaTypes, DatabaseTypes, StageTypes
<1>5. OddItems' /\ Applications' /\ Transacts'
  BY <1>1, <1>2, <1>3 DEF OddItems, Applications, Transacts
<1>6. Disordered'
  BY <1>1, <1>2, <1>3 DEF Disordered, Condemned, Unlike
<1>7. Ordered' /\ Whole' /\ Routed'
  BY <1>1, <1>2, <1>3 DEF Ordered, InOrder, Undisturbed, Whole, Routed
<1> QED
  BY <1>4, <1>5, <1>6, <1>7

\* It says all that the run checks.
LEMMA InvIsWhole == SchemaInv => Schema!SchemaWhole
<1> SUFFICES ASSUME SchemaInv PROVE Schema!SchemaWhole
  OBVIOUS
<1> USE DEF SchemaInv
<1>1. Schema!TypeOK
  <2>1. exact \cap {o.item : o \in odd} = {}
    BY DEF OddItems
  <2>2. session \in Migrators \cup {Schema!Nobody} /\
            exact \subseteq Schema!UpTo(Schema!HeadRevision)
    BY DEF SchemaTypes, DatabaseTypes, StageTypes
  <2>3. version.rows \subseteq 0..Schema!HeadRevision
    BY RevisionData DEF SchemaTypes, DatabaseTypes
  <2>4. \A m \in Migrators : work[m].rev \in 0..Schema!HeadRevision
    BY RevisionData DEF SchemaTypes, StageTypes
  <2> QED
    BY <2>1, <2>2, <2>3, <2>4 DEF Schema!TypeOK
<1>2. Schema!NothingHalf
  BY DEF Schema!NothingHalf, Whole
<1>3. Schema!DriftRefused
  BY DEF Schema!DriftRefused, Disordered
<1>4. Schema!CounterAhead
  BY DEF Schema!CounterAhead, Applications, Serves, Routed
<1>5. Schema!SuccessIsHead
  BY DEF Schema!SuccessIsHead, Transacts, Ordered, InOrder, Undisturbed
<1> QED
  BY <1>1, <1>2, <1>3, <1>4, <1>5 DEF Schema!SchemaWhole

LEMMA NextKeeps == SchemaInv /\ Schema!Next => SchemaInv'
<1> SUFFICES ASSUME SchemaInv, Schema!Next PROVE SchemaInv'
  OBVIOUS
<1>0. SchemaTypes /\ OddItems /\ Applications /\ Transacts /\ Disordered /\ Ordered /\ Whole /\
          Routed
  BY DEF SchemaInv
<1>1. SchemaTypes'
  BY <1>0, SchemaTypesStep
<1>2. OddItems'
  BY <1>0, <1>1, OddStep
<1>3. Applications'
  BY <1>0, <1>1, ApplicationsStep
<1>4. Transacts'
  BY <1>0, <1>1, <1>2, TransactsStep
<1>5. Disordered'
  BY <1>0, <1>1, <1>2, DisorderedStep
<1>6. Ordered'
  BY <1>0, <1>1, OrderedStep
<1>7. Whole'
  BY <1>0, <1>1, WholeStep
<1>8. Routed'
  BY <1>0, <1>1, RoutedStep
<1> QED
  BY <1>1, <1>2, <1>3, <1>4, <1>5, <1>6, <1>7, <1>8 DEF SchemaInv

\* The invariant holds of every part, since the other parts leave the database alone.
LEMMA SchemaInvHolds == DeploymentSpec => []SchemaInv
<1>1. DeploymentInit => SchemaInv
  BY InitInv DEF DeploymentInit
<1>2. SchemaInv /\ [DeploymentNext]_<<part, everything>> => SchemaInv'
  <2> SUFFICES ASSUME SchemaInv, [DeploymentNext]_<<part, everything>> PROVE SchemaInv'
    OBVIOUS
  <2>1. CASE Schema!Next
    BY <2>1, NextKeeps
  <2>2. CASE UNCHANGED schema
    <3>1. UNCHANGED Schema!vars
      BY <2>2 DEF schema, Schema!vars
    <3> QED
      BY <3>1, StutterKeeps
  <2> QED
    BY <2>1, <2>2 DEF DeploymentNext, everything
<1> QED
  BY <1>1, <1>2, PTL DEF DeploymentSpec

\* run_migrations, create_schema: however many processes migrate and heal the
\* database that was found, whatever runs and old answers come meanwhile, and
\* wherever one is killed or a statement or a commit fails, the database is at
\* one revision with all of it, one that differs from the baseline is left
\* alone, an application numbers its runs ahead of those there are, and success
\* is only reported at the head.
THEOREM SchemaIsWhole == DeploymentSpec => []SchemaWhole
<1>1. SchemaInv => SchemaWhole
  BY InvIsWhole DEF SchemaWhole
<1> QED
  BY <1>1, SchemaInvHolds, PTL

-----------------------------------------------------------------------------
(* The directories that a preparation needs first.                         *)

\* A directory that is there has a mode.
Made == [id |-> "made", mode |-> "private"]
Directory == [id : {"none", "before", "made", "operator"}, mode : {"none", "private", "wide"}]
Entries ==
    [existed : BOOLEAN, mode : {"none", "private", "wide"},
     id : {"none", "before", "made", "operator", "unknown"}, prepared : BOOLEAN, cleaned : BOOLEAN]
Making == {"make", "verify", "record"}
Creating == {"files", "companion", "ready"} \cup Making
Tidying == {"clean", "mark", "finish"}
DirectoryTypes ==
    /\ dir \in [Directories!Roles -> Directory] /\ original \in [Directories!Roles -> Directory]
    /\ \A r \in Directories!Roles : dir[r].id = "none" <=> dir[r].mode = "none"
    /\ \A r \in Directories!Roles : original[r].id = "none" <=> original[r].mode = "none"
    /\ original[Directories!SecretRoot] = Directories!Missing =>
           original[Directories!CompanionParent] = Directories!Missing
    /\ plans \in {"none", "bare", "open", "failed", "committed", "undone"}
    /\ record \in [protocol : {"v1", "v2"}, entries : [Directories!Roles -> Entries],
                   state : {"preparing", "ready", "cleanup_in_progress", "cleanup_complete"}]
    /\ metadata \in {"v1", "v2"} /\ companion \in BOOLEAN
    /\ step \in {"idle", "migrated", "use", "rollback", "bury"} \cup Creating \cup Tidying
    /\ at \in Directories!Roles /\ cuts \in Nat /\ changes \in Nat

\* What the record says: in the present form it names whom it is about.
Named ==
    /\ step # "idle" \/ metadata = "v2" => record.protocol = "v2"
    /\ plans = "none" \/ step = "files" => metadata = "v2" /\ record.state = "preparing"
    /\ record.protocol = "v2" =>
         \A r \in Directories!Roles :
            /\ record.entries[r].id # "unknown"
            /\ record.entries[r].existed => record.entries[r].id # "none"
            /\ record.entries[r].existed => record.entries[r].mode # "none"
    /\ record.protocol = "v1" =>
         /\ plans = "open"
         /\ \A r \in Directories!Roles : record.entries[r] = Directories!LegacyEntry(r) /\
                original[r].mode # "wide"

\* How far it is: what a process that has come to a place has recorded.
Advanced ==
    /\ step = "files" => plans = "bare" /\ at = Directories!SecretRoot
    /\ step \notin {"idle", "files"} => plans = "open"
    /\ step \in Creating => record.state = "preparing"
    /\ step = "use" => record.state = "ready"
    /\ step \in Tidying => record.state = "cleanup_in_progress"
    /\ step = "bury" => record.state = "cleanup_complete"
    /\ step \in Making /\ at = Directories!CompanionParent =>
           record.entries[Directories!SecretRoot].prepared
    /\ step \in {"companion", "ready", "use"} =>
           \A r \in Directories!Roles : record.entries[r].prepared
    /\ step \in {"clean", "mark"} /\ at = Directories!SecretRoot =>
           record.entries[Directories!CompanionParent].cleaned
    /\ step = "finish" => \A r \in Directories!Roles : record.entries[r].cleaned
    /\ step = "files" => \A r \in Directories!Roles : ~record.entries[r].prepared
    /\ record.protocol = "v2" /\ (plans = "open" \/ step = "files")
         => Directories!Writable(record.state, record.entries)

\* What the directories are, as long as the operator leaves them alone.
AsRecorded(r) ==
    /\ record.entries[r].existed <=> original[r] # Directories!Missing
    /\ record.entries[r].mode = original[r].mode
    /\ record.entries[r].existed =>
         /\ record.entries[r].id = original[r].id /\ dir[r].id = original[r].id
         /\ dir[r].mode \in {original[r].mode, "private"}
    /\ ~record.entries[r].existed =>
         /\ dir[r] = Directories!Missing \/ dir[r] = Made
         /\ record.entries[r].id \in {"none", "made"}
         /\ record.entries[r].prepared <=> record.entries[r].id = "made"
    /\ record.entries[r].cleaned => dir[r] = original[r]
    /\ Directories!Unrecorded(r) => cuts > 0 \/ (step \in {"verify", "record"} /\ at = r)
LeftAlone ==
    /\ plans = "undone" => dir = original
    /\ plans = "failed" => cuts > 0 /\ \E r \in Directories!Roles : Directories!Unrecorded(r)
    /\ record.protocol = "v1" =>
         \A r \in Directories!Roles : dir[r] = original[r] \/ (original[r] =
         Directories!Missing /\ dir[r] = Made)
    /\ record.protocol = "v2" /\ (plans = "open" \/ step = "files") =>
           \A r \in Directories!Roles : AsRecorded(r)
    /\ step = "files" => dir = original
    /\ step = "make" => dir[at] = original[at]
    /\ step \in Making /\ at = Directories!SecretRoot =>
           dir[Directories!CompanionParent] = original[Directories!CompanionParent]
    /\ step = "verify" => dir[at] = IF record.entries[at].existed THEN original[at] ELSE Made
    /\ step = "record" => dir[at] # Directories!Missing
    /\ step = "companion" => dir[Directories!CompanionParent] # Directories!Missing
    /\ step = "mark" => dir[at] = original[at]
DirectoryInv == DirectoryTypes /\ Named /\ Advanced /\ (changes = 0 => LeftAlone)

\* A step keeps what the record says and, while the operator leaves the
\* directories alone, what they are.
\* The snapshot of a directory as a record of the older form has it (_snapshot):
\* what was there keeps the mode it had, and what is there is named.
Shot(e, r) ==
    /\ e \in Entries /\ e.existed = (original[r] # Directories!Missing) /\
           e.mode = original[r].mode
    /\ e.id = dir[r].id /\ ~e.cleaned
    /\ ~e.existed => e.prepared = (dir[r] # Directories!Missing)
    /\ e.existed => e.id # "none"

LEMMA SnapshotTaken ==
  ASSUME NEW r, dir[r] \in Directory, original[r] \in Directory,
         original[r] # Directories!Missing => dir[r].mode = original[r].mode /\
             dir[r].id # "none"
  PROVE  Shot(Directories!Snapshot(Directories!LegacyEntry(r), r), r)
<1> DEFINE l == Directories!LegacyEntry(r)
           e == Directories!Snapshot(l, r)
           Row(x, p) == [existed |-> x, mode |-> original[r].mode, id |-> dir[r].id,
                         prepared |-> p, cleaned |-> FALSE]
<1>1. /\ original[r].mode \in {"none", "private", "wide"}
      /\ dir[r].id \in {"none", "before", "made", "operator", "unknown"}
  BY DEF Directory
<1>2. \A x, p \in BOOLEAN : Row(x, p) \in Entries
  BY <1>1, Zenon DEF Entries
<1>l. l = [existed |-> original[r] # Directories!Missing, mode |-> original[r].mode,
           id |-> "unknown", prepared |-> FALSE, cleaned |-> FALSE]
  BY Zenon DEF Directories!LegacyEntry
<1>e. e = IF l.existed THEN [l EXCEPT !.id = dir[r].id, !.prepared = TRUE]
          ELSE [l EXCEPT !.id = dir[r].id, !.prepared = dir[r] # Directories!Missing]
  BY Zenon DEF Directories!Snapshot
<1> HIDE DEF l, e
<1>3. CASE original[r] # Directories!Missing
  <2>1. l.existed
    BY <1>l, <1>3
  <2>2. e = [l EXCEPT !.id = dir[r].id, !.prepared = TRUE]
    BY <1>e, <2>1, Zenon
  <2>3. e = Row(original[r] # Directories!Missing, TRUE)
    BY <1>l, <2>2
  <2>4. dir[r].id # "none"
    BY <1>3
  <2>5. e \in Entries
    BY <1>2, <2>3, Zenon
  <2>6. /\ e.existed = (original[r] # Directories!Missing) /\ e.mode = original[r].mode
        /\ e.id = dir[r].id /\ ~e.cleaned
    BY <2>3, Zenon
  <2> QED BY <1>3, <2>4, <2>5, <2>6, Zenon DEF Shot, l, e
<1>4. CASE original[r] = Directories!Missing
  <2>1. ~l.existed
    BY <1>l, <1>4
  <2>2. e = [l EXCEPT !.id = dir[r].id, !.prepared = dir[r] # Directories!Missing]
    BY <1>e, <2>1, Zenon
  <2>3. e = Row(original[r] # Directories!Missing, dir[r] # Directories!Missing)
    BY <1>l, <2>2
  <2>5. e \in Entries
    BY <1>2, <2>3, Zenon
  <2>6. /\ e.existed = (original[r] # Directories!Missing) /\ e.mode = original[r].mode
        /\ e.id = dir[r].id /\ ~e.cleaned /\ e.prepared = (dir[r] # Directories!Missing)
    BY <2>3, Zenon
  <2> QED BY <1>4, <2>5, <2>6, Zenon DEF Shot, l, e
<1> QED BY <1>3, <1>4

LEMMA DirectorySteps == DirectoryInv /\ Directories!Next => DirectoryInv'
<1> SUFFICES ASSUME DirectoryInv, Directories!Next PROVE DirectoryInv'
  OBVIOUS
<1> USE DEF Directories!At, Directories!Go, Directories!Step, Directories!Roles,
        Directories!SecretRoot, Directories!CompanionParent, Directories!Missing,
        Directories!spent, Directories!process, Directories!Entry, Directories!Here,
        DirectoryInv, DirectoryTypes, Directory, Entries, Making, Creating, Tidying, Made
<1>a. \A x, y \in Directory : x.id = y.id /\ x.mode = y.mode => x = y
  OBVIOUS
<1>b. \A r \in Directories!Roles :
        /\ dir[r] \in Directory /\ (dir[r] = Directories!Missing <=> dir[r].id = "none")
        /\ original[r] \in Directory /\
               (original[r] = Directories!Missing <=> original[r].id = "none")
        /\ dir[r] = Directories!Missing <=> dir[r].mode = "none"
  BY <1>a
<1>c. Made \in Directory /\ Directories!Missing \in Directory
  OBVIOUS
<1>1. CASE Directories!BeginCreate
  <2>0. /\ original' = dir /\ dir' = dir /\ plans' = "bare" /\ step' = "files" /\
               at' = Directories!SecretRoot
        /\ record.protocol = "v2" /\ record'.protocol = "v2" /\ record.state = "preparing" /\
               record'.state = "preparing"
        /\ record' = [record EXCEPT !.entries = Directories!Planned]
        /\ UNCHANGED <<metadata, companion, cuts, changes>> /\ metadata = "v2"
        /\ dir[Directories!SecretRoot] = Directories!Missing =>
               dir[Directories!CompanionParent] = Directories!Missing
    BY <1>1 DEF Directories!BeginCreate, Named
  <2>00. \A r \in Directories!Roles : /\ record'.entries[r] \in Entries
                                      /\ record'.entries[r].existed = (dir[r] # Directories!Missing)
                                      /\ record'.entries[r].mode = dir[r].mode /\
                                             record'.entries[r].id = dir[r].id
                                      /\ ~record'.entries[r].prepared /\ ~record'.entries[r].cleaned
    BY <2>0 DEF Directories!Planned, Directories!PlanEntry
  <2>000. record'.entries \in [Directories!Roles -> Entries]
    BY <2>0, <2>00 DEF Directories!Planned
  <2>1. DirectoryTypes'
    BY <2>0, <2>000
  <2>2. Named'
    BY <2>0, <2>00 DEF Named
  <2>3. Advanced'
    BY <2>0, <2>00 DEF Advanced, Directories!Writable
  <2>4. changes' = 0 => LeftAlone'
    <3> SUFFICES ASSUME changes = 0 PROVE LeftAlone'
      BY <2>0
    <3>1. ASSUME NEW r \in Directories!Roles PROVE AsRecorded(r)'
      BY <2>0, <2>00 DEF AsRecorded, Directories!Unrecorded
    <3> QED BY <2>0, <3>1 DEF LeftAlone
  <2> QED BY <2>1, <2>2, <2>3, <2>4
<1>2. CASE Directories!WriteFiles
  <2>0. /\ UNCHANGED <<dir, original, record, metadata, companion, cuts, changes, at>>
        /\ step = "files" /\ plans = "bare" /\ record.protocol = "v2" /\ metadata = "v2"
        /\ at = Directories!SecretRoot /\ record.state = "preparing" /\
               Directories!Writable(record.state, record.entries)
        /\ \/ plans' = "open" /\ step' = "make"
           \/ plans' = "none" /\ step' = "idle"
    BY <1>2 DEF Directories!WriteFiles, Named, Advanced
  <2>00. Directories!Writable(record'.state, record'.entries)
    BY <2>0
  <2>1. DirectoryTypes'
    BY <2>0
  <2>2. Named'
    BY <2>0 DEF Named
  <2>3. Advanced'
    BY <2>0, <2>00 DEF Advanced
  <2>4. changes' = 0 => LeftAlone'
    BY <2>0 DEF LeftAlone, AsRecorded, Directories!Unrecorded
  <2> QED BY <2>1, <2>2, <2>3, <2>4
<1>3. CASE Directories!MakeDirectory
  <2>0. /\ UNCHANGED <<original, record, metadata, plans, companion, cuts, changes, at>>
        /\ step = "make" /\ step' \in {"verify", "rollback"} /\ record.protocol = "v2" /\
               plans = "open"
        /\ dir' \in [Directories!Roles -> Directory] /\
               \A r \in Directories!Roles \ {at} : dir'[r] = dir[r]
        /\ dir'[at] = dir[at] \/ dir'[at] = Made
    BY <1>3 DEF Directories!MakeDirectory, Named, Advanced
  <2>1. DirectoryTypes'
    BY <2>0
  <2>2. Named'
    BY <2>0 DEF Named
  <2>3. Advanced'
    BY <2>0 DEF Advanced, Directories!Writable
  <2>4. changes' = 0 => LeftAlone'
    <3> SUFFICES ASSUME changes = 0 PROVE LeftAlone'
      BY <2>0
    <3>1. /\ \A r \in Directories!Roles : AsRecorded(r)
          /\ dir[at] = original[at]
      BY <2>0 DEF LeftAlone
    <3>2. step' = "verify" /\ dir'[at] = IF Directories!Entry.existed THEN original[at] ELSE Made
      BY <1>3, <3>1 DEF Directories!MakeDirectory, AsRecorded
    <3>3. ASSUME NEW r \in Directories!Roles PROVE AsRecorded(r)'
      <4>1. CASE r = at
        <5>1. AsRecorded(at)
          BY <3>1
        <5>2. ~Directories!Entry.cleaned
          BY <2>0 DEF Advanced, Directories!Writable
        <5>3. CASE Directories!Entry.existed
          BY <2>0, <3>1, <3>2, <4>1, <5>1, <5>2, <5>3 DEF AsRecorded, Directories!Unrecorded
        <5>4. CASE ~Directories!Entry.existed
          BY <2>0, <3>2, <4>1, <5>1, <5>2, <5>4 DEF AsRecorded, Directories!Unrecorded
        <5> QED BY <5>3, <5>4
      <4>2. CASE r # at
        BY <2>0, <3>1, <3>2, <4>2 DEF AsRecorded, Directories!Unrecorded
      <4> QED BY <4>1, <4>2
    <3> QED BY <2>0, <3>2, <3>3 DEF LeftAlone
  <2> QED BY <2>1, <2>2, <2>3, <2>4
<1>4. CASE Directories!VerifyDirectory
  <2>0. /\ UNCHANGED <<original, record, metadata, plans, companion, cuts, changes, at>>
        /\ step = "verify" /\ step' \in {"record", "rollback"} /\ record.protocol = "v2" /\
               plans = "open"
        /\ dir' = dir \/ (dir' = [dir EXCEPT ![at].mode = "private"] /\ Directories!AsPlanned)
    BY <1>4 DEF Directories!VerifyDirectory, Named, Advanced
  <2>00. Directories!AsPlanned => dir[at].mode # "none"
    BY <2>0 DEF Directories!AsPlanned, Named
  <2>000. /\ dir' \in [Directories!Roles -> Directory] /\
                 \A r \in Directories!Roles \ {at} : dir'[r] = dir[r]
          /\ dir'[at].id = dir[at].id
          /\ dir'[at].mode = dir[at].mode \/ (dir'[at].mode = "private" /\ dir[at].mode # "none")
    BY <2>0, <2>00
  <2>1. DirectoryTypes'
    BY <2>0, <2>000
  <2>2. Named'
    BY <2>0 DEF Named
  <2>3. Advanced'
    BY <2>0 DEF Advanced, Directories!Writable
  <2>4. changes' = 0 => LeftAlone'
    <3> SUFFICES ASSUME changes = 0 PROVE LeftAlone'
      BY <2>0
    <3>1. /\ \A r \in Directories!Roles : AsRecorded(r)
          /\ dir[at] = IF Directories!Entry.existed THEN original[at] ELSE Made
          /\ at = Directories!SecretRoot =>
                 dir[Directories!CompanionParent] = original[Directories!CompanionParent]
      BY <2>0 DEF LeftAlone
    <3>2. Directories!AsPlanned
      BY <3>1 DEF Directories!AsPlanned, AsRecorded
    <3>3. step' = "record" /\ dir'[at].id = dir[at].id /\ dir'[at].mode = "private"
      BY <1>4, <3>2 DEF Directories!VerifyDirectory
    <3>4. dir[at].id # "none"
      BY <2>00, <3>2
    <3>5. ~Directories!Entry.existed => dir'[at] = Made
      BY <2>000, <3>1, <3>3
    <3>6. ASSUME NEW r \in Directories!Roles PROVE AsRecorded(r)'
      <4>1. CASE r = at
        <5>1. AsRecorded(at)
          BY <3>1
        <5>2. ~Directories!Entry.cleaned
          BY <2>0 DEF Advanced, Directories!Writable
        <5> QED BY <2>0, <3>3, <3>4, <3>5, <4>1, <5>1, <5>2 DEF AsRecorded, Directories!Unrecorded
      <4>2. CASE r # at
        <5>1. AsRecorded(r)
          BY <3>1
        <5> QED BY <2>0, <2>000, <3>3, <4>2, <5>1 DEF AsRecorded, Directories!Unrecorded
      <4> QED BY <4>1, <4>2
    <3>7. at = Directories!SecretRoot =>
              dir'[Directories!CompanionParent] = original[Directories!CompanionParent]
      BY <2>000, <3>1
    <3>8. dir'[at] # Directories!Missing
      BY <3>3
    <3> QED BY <2>0, <3>3, <3>6, <3>7, <3>8 DEF LeftAlone
  <2> QED BY <2>1, <2>2, <2>3, <2>4
<1>5. CASE Directories!RecordPrepared
  <2>0. /\ UNCHANGED <<dir, original, metadata, plans, companion, cuts, changes>>
        /\ step = "record" /\ record.protocol = "v2" /\ plans = "open"
        /\ record.state = "preparing" /\ metadata \in {"v1", "v2"}
        /\ \/ at = Directories!CompanionParent /\ step' = "companion" /\ at' = at
           \/ at = Directories!SecretRoot /\ step' = "make" /\ at' = Directories!CompanionParent
    BY <1>5 DEF Directories!RecordPrepared, Named, Advanced
  <2> DEFINE e == [record.entries[at] EXCEPT
                    !.id = IF Directories!Entry.existed THEN record.entries[at].id
                           ELSE Directories!Here.id,
                    !.prepared = TRUE]
  <2>a. Directories!Entry \in Entries /\ Directories!Here.id \in {"none", "before", "made",
            "operator"}
    OBVIOUS
  <2>b. /\ e \in Entries /\ e.existed = Directories!Entry.existed /\
               e.mode = Directories!Entry.mode /\ e.cleaned = Directories!Entry.cleaned
        /\ e.prepared
        /\ e.id = IF Directories!Entry.existed THEN Directories!Entry.id ELSE Directories!Here.id
    BY <2>a
  <2>c. record' = [record EXCEPT !.entries[at] = e]
    BY <1>5, Zenon DEF Directories!RecordPrepared
  <2> HIDE DEF e
  <2>d. /\ record'.protocol = "v2" /\ record'.state = "preparing"
        /\ record'.entries \in [Directories!Roles -> Entries] /\ record'.entries[at] = e
        /\ \A r \in Directories!Roles \ {at} : record'.entries[r] = record.entries[r]
        /\ record' \in [protocol : {"v1", "v2"}, entries : [Directories!Roles -> Entries],
                   state : {"preparing", "ready", "cleanup_in_progress", "cleanup_complete"}]
    BY <2>0, <2>b, <2>c
  <2>1. DirectoryTypes'
    BY <2>0, <2>d
  <2>2. Named'
    <3>1. /\ record.entries[at].id # "unknown" /\ (Directories!Entry.existed =>
                 Directories!Entry.id # "none" /\ Directories!Entry.mode # "none")
      BY <2>0 DEF Named
    <3>2. e.id # "unknown" /\ (e.existed => e.id # "none" /\ e.mode # "none")
      BY <2>a, <2>b, <3>1
    <3>3. \A r \in Directories!Roles :
            /\ record'.entries[r].id # "unknown"
            /\ record'.entries[r].existed => record'.entries[r].id # "none"
            /\ record'.entries[r].existed => record'.entries[r].mode # "none"
      BY <2>0, <2>d, <3>2 DEF Named
    <3>4. plans # "none" /\ step' # "files"
      BY <2>0
    <3> QED BY <2>0, <2>d, <3>3, <3>4 DEF Named
  <2>3. Advanced'
    <3>1. Directories!Writable(record.state, record.entries) /\
              (at = Directories!CompanionParent => record.entries[Directories!SecretRoot].prepared)
      BY <2>0 DEF Advanced
    <3>2. record'.entries[Directories!SecretRoot].prepared
      BY <2>0, <2>b, <2>d, <3>1
    <3>3. \A r \in Directories!Roles : ~record'.entries[r].cleaned
      BY <2>0, <2>b, <2>d, <3>1 DEF Directories!Writable
    <3>4. Directories!Writable(record'.state, record'.entries)
      BY <2>d, <3>2, <3>3 DEF Directories!Writable
    <3>5. step' = "companion" => \A r \in Directories!Roles : record'.entries[r].prepared
      BY <2>0, <2>b, <2>d, <3>2
    <3> QED BY <2>0, <2>d, <3>2, <3>4, <3>5 DEF Advanced
  <2>4. changes' = 0 => LeftAlone'
    <3> SUFFICES ASSUME changes = 0 PROVE LeftAlone'
      BY <2>0
    <3>1. /\ \A r \in Directories!Roles : AsRecorded(r)
          /\ dir[at] # Directories!Missing
          /\ at = Directories!SecretRoot =>
                 dir[Directories!CompanionParent] = original[Directories!CompanionParent]
      BY <2>0 DEF LeftAlone
    <3>2. ASSUME NEW r \in Directories!Roles PROVE AsRecorded(r)'
      <4>0. AsRecorded(r)
        BY <3>1
      <4>1. CASE r = at
        <5>1. ~Directories!Entry.existed => Directories!Here.id = "made"
          BY <3>1, <4>0, <4>1 DEF AsRecorded
        <5> QED BY <2>0, <2>b, <2>d, <3>1, <4>0, <4>1, <5>1 DEF AsRecorded, Directories!Unrecorded
      <4>2. CASE r # at
        BY <2>0, <2>d, <4>0, <4>2 DEF AsRecorded, Directories!Unrecorded
      <4> QED BY <4>1, <4>2
    <3> QED BY <2>0, <2>d, <3>1, <3>2 DEF LeftAlone
  <2> QED BY <2>1, <2>2, <2>3, <2>4
<1>6. CASE Directories!MakeCompanion
  <2>0. /\ UNCHANGED <<dir, original, plans, record, metadata, cuts, changes, at>> /\
               record.protocol = "v2"
        /\ step = "companion" /\ step' \in {"ready", "rollback"} /\ plans = "open" /\
               companion' \in BOOLEAN
    BY <1>6 DEF Directories!MakeCompanion, Named, Advanced
  <2>1. DirectoryTypes'
    BY <2>0
  <2>2. Named'
    BY <2>0 DEF Named
  <2>3. Advanced'
    BY <2>0 DEF Advanced, Directories!Writable
  <2>4. changes' = 0 => LeftAlone'
    BY <2>0 DEF LeftAlone, AsRecorded, Directories!Unrecorded
  <2> QED BY <2>1, <2>2, <2>3, <2>4
<1>7. CASE Directories!RecordReady
  <2>0. /\ UNCHANGED <<dir, original, plans, metadata, companion, cuts, changes, at>>
        /\ step = "ready" /\ step' = "use" /\ plans = "open" /\ record.protocol = "v2"
        /\ record' = [record EXCEPT !.state = "ready"]
    BY <1>7 DEF Directories!RecordReady, Named, Advanced
  <2>00. /\ record'.state = "ready" /\ record'.protocol = "v2" /\ record'.entries = record.entries
         /\ record' \in [protocol : {"v1", "v2"}, entries : [Directories!Roles -> Entries],
                   state : {"preparing", "ready", "cleanup_in_progress", "cleanup_complete"}]
    BY <2>0
  <2>1. DirectoryTypes'
    BY <2>0, <2>00
  <2>2. Named'
    BY <2>0, <2>00 DEF Named
  <2>3. Advanced'
    BY <2>0, <2>00 DEF Advanced, Directories!Writable
  <2>4. changes' = 0 => LeftAlone'
    BY <2>0, <2>00 DEF LeftAlone, AsRecorded, Directories!Unrecorded
  <2> QED BY <2>1, <2>2, <2>3, <2>4
<1>8. CASE Directories!UseJournal
  <2>0. /\ UNCHANGED <<dir, original, record, metadata, cuts, changes, at>> /\
               record.protocol = "v2"
        /\ step = "use" /\ plans = "open" /\ companion' \in BOOLEAN /\ ((step' = "rollback" /\
               plans' = plans) \/ (step' = "idle" /\ plans' = "committed"))
    BY <1>8 DEF Directories!UseJournal, Named, Advanced
  <2>1. DirectoryTypes'
    BY <2>0
  <2>2. Named'
    BY <2>0 DEF Named
  <2>3. Advanced'
    BY <2>0 DEF Advanced, Directories!Writable
  <2>4. changes' = 0 => LeftAlone'
    BY <2>0 DEF LeftAlone, AsRecorded, Directories!Unrecorded
  <2> QED BY <2>1, <2>2, <2>3, <2>4
<1>9. CASE Directories!Reopen
  <2>0. /\ UNCHANGED <<dir, original, plans, metadata, companion, cuts, changes, at>>
        /\ step = "idle" /\ step' \in {"rollback", "migrated"} /\ plans = "open"
        /\ \/ record.protocol = "v2" /\ record' = record
           \/ /\ record.protocol = "v1" /\ step' = "migrated" /\
                     Directories!SnapshotSafe(record.entries)
              /\ Directories!Writable(record.state, Directories!Snapshots(record.entries))
              /\ record' = [record EXCEPT !.protocol = "v2",
                     !.entries = Directories!Snapshots(record.entries)]
    BY <1>9 DEF Directories!Reopen, Named
  <2>a. CASE record.protocol = "v2" /\ record' = record
    <3>1. DirectoryTypes'
      BY <2>0, <2>a
    <3>2. Named'
      BY <2>0, <2>a DEF Named
    <3>3. Advanced'
      BY <2>0, <2>a DEF Advanced
    <3>4. changes' = 0 => LeftAlone'
      BY <2>0, <2>a DEF LeftAlone, AsRecorded, Directories!Unrecorded
    <3> QED BY <3>1, <3>2, <3>3, <3>4
  <2>b. CASE /\ record.protocol = "v1" /\ step' = "migrated" /\
                    Directories!SnapshotSafe(record.entries)
             /\ Directories!Writable(record.state, Directories!Snapshots(record.entries))
             /\ record' = [record EXCEPT !.protocol = "v2",
                    !.entries = Directories!Snapshots(record.entries)]
    <3> DEFINE S == Directories!Snapshots(record.entries)
    <3>1. \A r \in Directories!Roles : record.entries[r] = Directories!LegacyEntry(r) /\
              original[r].mode # "wide"
      BY <2>b DEF Named
    <3>2. ASSUME NEW r \in Directories!Roles
          PROVE  /\ S[r] \in Entries /\ S[r].existed = (original[r] # Directories!Missing) /\
                        S[r].mode = original[r].mode
                 /\ S[r].id = dir[r].id /\ ~S[r].cleaned
                 /\ ~S[r].existed => S[r].prepared = (dir[r] # Directories!Missing)
                 /\ S[r].existed => S[r].id # "none"
      <4>1. record.entries[r] = Directories!LegacyEntry(r) /\ dir[r] \in Directory /\
                original[r] \in Directory
        BY <3>1
      <4>2. S[r] = Directories!Snapshot(Directories!LegacyEntry(r), r)
        BY <4>1 DEF Directories!Snapshots
      <4>3. original[r] # Directories!Missing => dir[r].mode = original[r].mode
        BY <2>b, <4>1 DEF Directories!SnapshotSafe, Directories!LegacyEntry
      <4> HIDE DEF S
      <4>4. original[r] # Directories!Missing => dir[r].id # "none"
        BY <1>b, <4>1, <4>3
      <4> HIDE DEF Directory, Entries, Directories!Missing, DirectoryTypes
      <4>5. Shot(Directories!Snapshot(Directories!LegacyEntry(r), r), r)
        BY <4>1, <4>3, <4>4, SnapshotTaken, Zenon
      <4>6. Shot(S[r], r)
        BY <4>2, <4>5, Zenon
      <4> QED BY <4>6, Zenon DEF Shot
    <3>3. S \in [Directories!Roles -> Entries]
      BY <3>2 DEF Directories!Snapshots
    <3> HIDE DEF S
    <3>4. /\ record'.protocol = "v2" /\ record'.state = record.state /\ record'.entries = S
          /\ record' \in [protocol : {"v1", "v2"}, entries : [Directories!Roles -> Entries],
                   state : {"preparing", "ready", "cleanup_in_progress", "cleanup_complete"}]
      BY <2>b, <3>3 DEF S
    <3>5. Directories!Writable(record'.state, record'.entries)
      BY <2>b, <3>4 DEF S
    <3>6. DirectoryTypes'
      BY <2>0, <3>4
    <3>7. Named'
      BY <2>0, <2>b, <3>2, <3>4 DEF Named
    <3>8. Advanced'
      BY <2>0, <2>b, <3>4, <3>5 DEF Advanced
    <3>9. changes' = 0 => LeftAlone'
      <4> SUFFICES ASSUME changes = 0 PROVE LeftAlone'
        BY <2>0
      <4>1. \A r \in Directories!Roles : dir[r] = original[r] \/ (original[r] =
                Directories!Missing /\ dir[r] = Made)
        BY <2>b DEF LeftAlone
      <4>2. ASSUME NEW r \in Directories!Roles PROVE AsRecorded(r)'
        <5>1. dir[r] = original[r] \/ (original[r] = Directories!Missing /\ dir[r] = Made)
          BY <4>1
        <5> QED BY <2>0, <3>2, <3>4, <5>1 DEF AsRecorded, Directories!Unrecorded
      <4> QED BY <2>0, <2>b, <3>4, <4>2 DEF LeftAlone
    <3> QED BY <3>6, <3>7, <3>8, <3>9
  <2>1. DirectoryTypes'
    BY <2>0, <2>a, <2>b, Zenon
  <2>2. Named'
    BY <2>0, <2>a, <2>b, Zenon
  <2>3. Advanced'
    BY <2>0, <2>a, <2>b, Zenon
  <2>4. changes' = 0 => LeftAlone'
    BY <2>0, <2>a, <2>b, Zenon
  <2> QED BY <2>1, <2>2, <2>3, <2>4
<1>10. CASE Directories!MigrateMetadata
  <2>1. DirectoryTypes'
    BY <1>10 DEF Directories!MigrateMetadata
  <2>2. Named'
    BY <1>10, <2>1 DEF Directories!MigrateMetadata, Named, Directories!LegacyEntry
  <2>3. Advanced'
    BY <1>10, <2>1 DEF Directories!MigrateMetadata, Named, Advanced, Directories!Writable
  <2>4. changes' = 0 => LeftAlone'
    BY <1>10, <2>1 DEF Directories!MigrateMetadata, Named, Advanced, LeftAlone, AsRecorded,
       Directories!Unrecorded
  <2> QED BY <2>1, <2>2, <2>3, <2>4
<1>11. CASE Directories!RemoveCompanion
  <2>0. /\ UNCHANGED <<dir, original, plans, metadata, cuts, changes>>
        /\ step = "rollback" /\ companion' \in BOOLEAN /\ plans = "open" /\ record.protocol = "v2"
        /\ \/ record.state = "cleanup_complete" /\ record' = record /\ step' = "bury" /\ at' = at
           \/ record' = [record EXCEPT !.state = "cleanup_in_progress"] /\ step' = "clean" /\
                  at' = Directories!CompanionParent
    BY <1>11 DEF Directories!RemoveCompanion, Named, Advanced
  <2>00. /\ record'.protocol = "v2" /\ record'.entries = record.entries
         /\ \/ record.state = "cleanup_complete" /\ record'.state = "cleanup_complete" /\
                   step' = "bury"
            \/ record'.state = "cleanup_in_progress" /\ step' = "clean" /\
                   at' = Directories!CompanionParent
         /\ record' \in [protocol : {"v1", "v2"}, entries : [Directories!Roles -> Entries],
                   state : {"preparing", "ready", "cleanup_in_progress", "cleanup_complete"}]
    BY <2>0
  <2>1. DirectoryTypes'
    BY <2>0, <2>00
  <2>2. Named'
    BY <2>0, <2>00 DEF Named
  <2>3. Advanced'
    BY <2>0, <2>00 DEF Advanced, Directories!Writable
  <2>4. changes' = 0 => LeftAlone'
    BY <2>0, <2>00 DEF LeftAlone, AsRecorded, Directories!Unrecorded
  <2> QED BY <2>1, <2>2, <2>3, <2>4
<1>12. CASE Directories!CleanDirectory
  <2>0. /\ UNCHANGED <<original, record, metadata, plans, companion, cuts, changes, at>>
        /\ step = "clean" /\ step' = "mark" /\ plans = "open" /\ record.protocol = "v2"
        /\ Directories!CleanSafe /\ dir' = [dir EXCEPT ![at] = Directories!Restored]
    BY <1>12 DEF Directories!CleanDirectory, Named, Advanced
  <2>00. /\ \A r \in Directories!Roles \ {at} : dir'[r] = dir[r]
         /\ Directories!Entry.existed =>
              /\ dir'[at] = [dir[at] EXCEPT !.mode = Directories!Entry.mode]
              /\ dir'[at].id = dir[at].id /\ dir'[at].mode = Directories!Entry.mode
              /\ dir[at] # Directories!Missing
         /\ ~Directories!Entry.existed => dir'[at] = Directories!Missing
    BY <2>0 DEF Directories!CleanSafe, Directories!Restored, Directories!AsBefore,
       Directories!AsAfter, Directories!Matches
  <2>000. Directories!Entry.existed => dir[at].id # "none" /\ Directories!Entry.mode # "none"
    BY <1>b, <2>0, <2>00 DEF Named
  <2>1. DirectoryTypes'
    <3>1. dir'[at] \in Directory
      <4>1. dir[at] \in Directory /\ Directories!Entry.mode \in {"none", "private", "wide"}
        OBVIOUS
      <4> QED BY <1>c, <2>00, <4>1
    <3>2. dir' \in [Directories!Roles -> Directory]
      BY <2>0, <3>1
    <3> QED BY <2>0, <2>00, <2>000, <3>2
  <2>2. Named'
    BY <2>0 DEF Named
  <2>3. Advanced'
    BY <2>0 DEF Advanced, Directories!Writable
  <2>4. changes' = 0 => LeftAlone'
    <3> SUFFICES ASSUME changes = 0 PROVE LeftAlone'
      BY <2>0
    <3>1. \A r \in Directories!Roles : AsRecorded(r)
      BY <2>0 DEF LeftAlone
    <3>2. dir'[at] = original[at]
      <4>1. CASE Directories!Entry.existed
        <5>1. dir'[at].id = original[at].id /\ dir'[at].mode = original[at].mode
          BY <2>00, <3>1, <4>1 DEF AsRecorded
        <5>2. dir'[at] \in Directory
          BY <2>1
        <5> QED BY <1>a, <1>b, <5>1, <5>2
      <4>2. CASE ~Directories!Entry.existed
        BY <2>00, <3>1, <4>2 DEF AsRecorded
      <4> QED BY <4>1, <4>2
    <3>3. ASSUME NEW r \in Directories!Roles PROVE AsRecorded(r)'
      <4>0. AsRecorded(r)
        BY <3>1
      <4>1. CASE r = at
        BY <2>0, <2>00, <3>2, <4>0, <4>1 DEF AsRecorded, Directories!Unrecorded
      <4>2. CASE r # at
        BY <2>0, <2>00, <4>0, <4>2 DEF AsRecorded, Directories!Unrecorded
      <4> QED BY <4>1, <4>2
    <3> QED BY <2>0, <3>2, <3>3 DEF LeftAlone
  <2> QED BY <2>1, <2>2, <2>3, <2>4
<1>13. CASE Directories!Conflict
  <2>0. /\ UNCHANGED <<dir, original, record, metadata, companion, cuts, changes, at>> /\
               record.protocol = "v2"
        /\ step = "clean" /\ plans = "open" /\ plans' = "failed" /\ step' = "idle" /\
               ~Directories!CleanSafe
    BY <1>13 DEF Directories!Conflict, Named, Advanced
  <2>1. DirectoryTypes'
    BY <2>0
  <2>2. Named'
    BY <2>0 DEF Named
  <2>3. Advanced'
    BY <2>0 DEF Advanced, Directories!Writable
  <2>4. changes' = 0 => LeftAlone'
    <3> SUFFICES ASSUME changes = 0 PROVE LeftAlone'
      BY <2>0
    <3>1. \A r \in Directories!Roles : AsRecorded(r)
      BY <2>0 DEF LeftAlone
    <3>2. CASE Directories!Entry.cleaned
      <4>1. dir[at] = original[at]
        BY <3>1, <3>2 DEF AsRecorded
      <4> QED BY <2>0, <3>1, <3>2, <4>1 DEF Directories!CleanSafe, Directories!AsBefore,
              Directories!Matches, Directories!SameIdentity, AsRecorded
    <3>3. CASE ~Directories!Entry.cleaned /\ Directories!Entry.existed
      <4>1. dir[at].id = Directories!Entry.id /\ dir[at].mode \in {Directories!Entry.mode,
                "private"} /\ dir[at] # Directories!Missing
        BY <1>b, <3>1, <3>3 DEF AsRecorded
      <4> QED BY <2>0, <3>3, <4>1 DEF Directories!CleanSafe, Directories!AsBefore,
              Directories!AsAfter, Directories!Matches, Directories!SameIdentity
    <3>4. CASE ~Directories!Entry.cleaned /\ ~Directories!Entry.existed
      <4>1. dir[at] = Made
        BY <2>0, <3>1, <3>4 DEF Directories!CleanSafe, AsRecorded
      <4>2. at = Directories!SecretRoot => dir[Directories!CompanionParent] = Directories!Missing
        <5> SUFFICES ASSUME at = Directories!SecretRoot PROVE dir[Directories!CompanionParent] =
                         Directories!Missing
          OBVIOUS
        <5>1. record.entries[Directories!CompanionParent].cleaned
          BY <2>0 DEF Advanced
        <5>2. original[Directories!SecretRoot] = Directories!Missing
          BY <3>1, <3>4 DEF AsRecorded
        <5> QED BY <3>1, <5>1, <5>2 DEF AsRecorded
      <4>3. Directories!Entry.id = "none"
        BY <2>0, <3>1, <3>4, <4>1, <4>2 DEF Directories!CleanSafe, Directories!AsAfter,
           Directories!Matches, Directories!SameIdentity, AsRecorded, Directories!KnownIdentity
      <4>4. Directories!Unrecorded(at) /\ cuts > 0
        BY <2>0, <3>1, <3>4, <4>1, <4>3 DEF Directories!Unrecorded, AsRecorded
      <4>5. Directories!Unrecorded(at)' /\ cuts' > 0
        BY <2>0, <4>4 DEF Directories!Unrecorded
      <4> QED BY <2>0, <4>5 DEF LeftAlone
    <3> QED BY <3>2, <3>3, <3>4
  <2> QED BY <2>1, <2>2, <2>3, <2>4
<1>14. CASE Directories!RecordCleaned
  <2>0. /\ UNCHANGED <<dir, original, metadata, plans, companion, cuts, changes>>
        /\ step = "mark" /\ record.protocol = "v2" /\ plans = "open"
        /\ record.state = "cleanup_in_progress"
        /\ record' = [record EXCEPT !.entries[at].cleaned = TRUE]
        /\ \/ at = Directories!SecretRoot /\ step' = "finish" /\ at' = at /\
                  record.entries[Directories!CompanionParent].cleaned
           \/ at = Directories!CompanionParent /\ step' = "clean" /\ at' = Directories!SecretRoot
    BY <1>14 DEF Directories!RecordCleaned, Named, Advanced
  <2>d. /\ record'.protocol = "v2" /\ record'.state = "cleanup_in_progress"
        /\ record'.entries = [record.entries EXCEPT ![at] = [record.entries[at] EXCEPT !.cleaned =
               TRUE]]
        /\ record' \in [protocol : {"v1", "v2"}, entries : [Directories!Roles -> Entries],
                   state : {"preparing", "ready", "cleanup_in_progress", "cleanup_complete"}]
    <3>1. \A l \in Entries : [l EXCEPT !.cleaned = TRUE] \in Entries
      OBVIOUS
    <3>2. record.entries[at] \in Entries
      OBVIOUS
    <3>3. [record.entries[at] EXCEPT !.cleaned = TRUE] \in Entries
      BY <3>1, <3>2, Zenon
    <3> QED BY <2>0, <3>3
  <2>e. /\ record'.entries[at].cleaned
        /\ \A r \in Directories!Roles \ {at} : record'.entries[r] = record.entries[r]
        /\ \A r \in Directories!Roles : /\ record'.entries[r].existed = record.entries[r].existed
                                        /\ record'.entries[r].mode = record.entries[r].mode
                                        /\ record'.entries[r].id = record.entries[r].id
                                        /\ record'.entries[r].prepared = record.entries[r].prepared
    BY <2>d
  <2>1. DirectoryTypes'
    BY <2>0, <2>d
  <2>2. Named'
    BY <2>0, <2>d, <2>e DEF Named
  <2>3. Advanced'
    BY <2>0, <2>d, <2>e DEF Advanced, Directories!Writable
  <2>4. changes' = 0 => LeftAlone'
    <3> SUFFICES ASSUME changes = 0 PROVE LeftAlone'
      BY <2>0
    <3>1. /\ \A r \in Directories!Roles : AsRecorded(r)
          /\ dir[at] = original[at]
      BY <2>0 DEF LeftAlone
    <3>2. ASSUME NEW r \in Directories!Roles PROVE AsRecorded(r)'
      <4>1. AsRecorded(r) /\ (r = at => dir[r] = original[r])
        BY <3>1
      <4> QED BY <2>0, <2>e, <4>1 DEF AsRecorded, Directories!Unrecorded
    <3> QED BY <2>0, <2>d, <3>2 DEF LeftAlone
  <2> QED BY <2>1, <2>2, <2>3, <2>4
<1>15. CASE Directories!RecordComplete
  <2>0. /\ UNCHANGED <<dir, original, plans, metadata, companion, cuts, changes, at>>
        /\ step = "finish" /\ step' = "bury" /\ plans = "open" /\ record.protocol = "v2"
        /\ record' = [record EXCEPT !.state = "cleanup_complete"]
    BY <1>15 DEF Directories!RecordComplete, Named, Advanced
  <2>00. /\ record'.state = "cleanup_complete" /\ record'.protocol = "v2" /\
                record'.entries = record.entries
         /\ record' \in [protocol : {"v1", "v2"}, entries : [Directories!Roles -> Entries],
                   state : {"preparing", "ready", "cleanup_in_progress", "cleanup_complete"}]
    BY <2>0
  <2>1. DirectoryTypes'
    BY <2>0, <2>00
  <2>2. Named'
    BY <2>0, <2>00 DEF Named
  <2>3. Advanced'
    BY <2>0, <2>00 DEF Advanced, Directories!Writable
  <2>4. changes' = 0 => LeftAlone'
    BY <2>0, <2>00 DEF LeftAlone, AsRecorded, Directories!Unrecorded
  <2> QED BY <2>1, <2>2, <2>3, <2>4
<1>16. CASE Directories!Bury
  <2>0. /\ UNCHANGED <<dir, original, record, metadata, companion, cuts, changes, at>> /\
               record.protocol = "v2"
        /\ step = "bury" /\ plans = "open" /\ plans' = "undone" /\ step' = "idle"
    BY <1>16 DEF Directories!Bury, Named, Advanced
  <2>1. DirectoryTypes'
    BY <2>0
  <2>2. Named'
    BY <2>0 DEF Named
  <2>3. Advanced'
    BY <2>0 DEF Advanced, Directories!Writable
  <2>4. changes' = 0 => LeftAlone'
    <3> SUFFICES ASSUME changes = 0 PROVE LeftAlone'
      BY <2>0
    <3>1. \A r \in Directories!Roles : record.entries[r].cleaned /\ AsRecorded(r)
      BY <2>0 DEF LeftAlone, Advanced, Directories!Writable
    <3>2. \A r \in Directories!Roles : dir[r] = original[r]
      BY <3>1 DEF AsRecorded
    <3>3. dir = original
      BY <3>2
    <3> QED BY <2>0, <3>3 DEF LeftAlone
  <2> QED BY <2>1, <2>2, <2>3, <2>4
<1>17. CASE Directories!Kill
  <2>1. DirectoryTypes'
    BY <1>17 DEF Directories!Kill
  <2>2. Named'
    BY <1>17, <2>1 DEF Directories!Kill, Named, Directories!LegacyEntry
  <2>3. Advanced'
    BY <1>17, <2>1 DEF Directories!Kill, Named, Advanced, Directories!Writable
  <2>4. changes' = 0 => LeftAlone'
    BY <1>17, <2>1 DEF Directories!Kill, Named, Advanced, LeftAlone, AsRecorded,
       Directories!Unrecorded
  <2> QED BY <2>1, <2>2, <2>3, <2>4
<1>18. CASE Directories!Edit
  <2>1. DirectoryTypes'
    BY <1>18 DEF Directories!Edit
  <2>2. Named'
    BY <1>18, <2>1 DEF Directories!Edit, Named, Directories!LegacyEntry
  <2>3. Advanced'
    BY <1>18, <2>1 DEF Directories!Edit, Named, Advanced, Directories!Writable
  <2>4. changes' = 0 => LeftAlone'
    BY <1>18, <2>1 DEF Directories!Edit, Named, Advanced, LeftAlone, AsRecorded,
       Directories!Unrecorded
  <2> QED BY <2>1, <2>2, <2>3, <2>4
<1> QED BY <1>1, <1>2, <1>3, <1>4, <1>5, <1>6, <1>7, <1>8, <1>9, <1>10, <1>11, <1>12, <1>13,
        <1>14, <1>15, <1>16, <1>17, <1>18 DEF Directories!Next, Directories!Create, Directories!Undo

\* The records of the older version hold no identity and no progress; a fresh
\* journal finds the directories as they were.
LEMMA DirectoryInit == Directories!Init => DirectoryInv
<1> SUFFICES ASSUME Directories!Init PROVE DirectoryInv
  OBVIOUS
<1> USE DEF Directories!Roles, Directories!SecretRoot, Directories!CompanionParent,
        Directories!Missing, Directory, Entries, Making, Creating, Tidying, Made
<1>0. /\ original \in [Directories!Roles -> {Directories!Missing, Directories!Before("private"),
             Directories!Before("wide")}]
      /\ original[Directories!SecretRoot] = Directories!Missing =>
             original[Directories!CompanionParent] = Directories!Missing
      /\ step = "idle" /\ at = Directories!SecretRoot /\ cuts = 0 /\ changes = 0
  BY Zenon DEF Directories!Init
<1>1. \A r \in Directories!Roles :
        /\ original[r] \in Directory
        /\ original[r].id = "none" <=> original[r].mode = "none"
        /\ original[r] = Directories!Missing <=> original[r].id = "none"
  BY <1>0 DEF Directories!Before
<1>a. original \in [Directories!Roles -> Directory]
  BY <1>0, <1>1
<1>2. CASE Directories!Fresh
  <2>0. /\ dir = original /\ plans = "none" /\ metadata = "v2" /\ companion = FALSE
        /\ record = [protocol |-> "v2", state |-> "preparing", entries |-> Directories!Planned]
    BY <1>2, Zenon DEF Directories!Fresh
  <2>1. ASSUME NEW r \in Directories!Roles
        PROVE  /\ Directories!PlanEntry(r) \in Entries
               /\ Directories!Planned[r] = Directories!PlanEntry(r)
    BY <1>1, <2>0 DEF Directories!PlanEntry, Directories!Planned
  <2>2. Directories!Planned \in [Directories!Roles -> Entries]
    BY <2>1 DEF Directories!Planned
  <2>a. /\ record.protocol = "v2" /\ record.state = "preparing" /\
               record.entries = Directories!Planned
        /\ record \in [protocol : {"v1", "v2"}, entries : [Directories!Roles -> Entries],
                   state : {"preparing", "ready", "cleanup_in_progress", "cleanup_complete"}]
    BY <2>0, <2>2
  <2>3. DirectoryTypes
    BY <1>0, <1>1, <1>a, <2>0, <2>a DEF DirectoryTypes
  <2>4. Named
    <3>1. \A r \in Directories!Roles : /\ Directories!PlanEntry(r).id # "unknown"
                                       /\ Directories!PlanEntry(r).existed =>
                                              Directories!PlanEntry(r).id # "none" /\
                                              Directories!PlanEntry(r).mode # "none"
      BY <1>1, <2>0 DEF Directories!PlanEntry
    <3> QED BY <1>0, <2>0, <2>1, <2>a, <3>1 DEF Named
  <2>5. Advanced /\ LeftAlone
    BY <1>0, <2>0, <2>a DEF Advanced, LeftAlone
  <2> QED BY <2>3, <2>4, <2>5 DEF DirectoryInv
<1>3. CASE Directories!Legacy
  <2>1. PICK n \in 0..2, state \in {"preparing", "ready"} :
           /\ dir = Directories!MadeUpTo(n)
           /\ companion \in IF state = "ready" THEN {TRUE} ELSE {FALSE, n = 2}
           /\ record = [protocol |-> "v1", state |-> state,
                  entries |-> [r \in Directories!Roles |-> Directories!LegacyEntry(r)]]
    BY <1>3, Zenon DEF Directories!Legacy
  <2>2. /\ \A r \in Directories!Roles : original[r].mode # "wide"
        /\ plans = "open" /\ metadata = "v1"
    BY <1>3, Zenon DEF Directories!Legacy
  <2>3. \A r \in Directories!Roles : /\ Directories!LegacyEntry(r) \in Entries
    BY <1>1 DEF Directories!LegacyEntry
  <2>4. /\ record.protocol = "v1" /\ record.state = state
        /\ \A r \in Directories!Roles : record.entries[r] = Directories!LegacyEntry(r)
        /\ record \in [protocol : {"v1", "v2"}, entries : [Directories!Roles -> Entries],
                   state : {"preparing", "ready", "cleanup_in_progress", "cleanup_complete"}]
    BY <2>1, <2>3
  <2>5. /\ dir \in [Directories!Roles -> Directory]
        /\ \A r \in Directories!Roles : dir[r] = original[r] \/ (original[r] =
               Directories!Missing /\ dir[r] = Made)
    BY <1>1, <2>1 DEF Directories!MadeUpTo
  <2>6. \A r \in Directories!Roles : dir[r].id = "none" <=> dir[r].mode = "none"
    BY <1>1, <2>5
  <2>7. companion \in BOOLEAN
    BY <2>1
  <2>8. DirectoryTypes
    BY <1>0, <1>1, <1>a, <2>2, <2>4, <2>5, <2>6, <2>7 DEF DirectoryTypes
  <2>9. Named /\ Advanced /\ LeftAlone
    BY <1>0, <2>2, <2>4, <2>5 DEF Named, Advanced, LeftAlone
  <2> QED BY <2>8, <2>9 DEF DirectoryInv
<1> QED BY <1>2, <1>3 DEF Directories!Init

LEMMA DirectoryStays == DirectoryInv /\ UNCHANGED Directories!vars => DirectoryInv'
<1> SUFFICES ASSUME DirectoryInv, UNCHANGED Directories!vars PROVE DirectoryInv'
  OBVIOUS
<1>1. /\ dir' = dir /\ original' = original /\ plans' = plans /\ record' = record
      /\ metadata' = metadata /\ companion' = companion /\ step' = step /\ at' = at
      /\ cuts' = cuts /\ changes' = changes
  BY DEF Directories!vars, Directories!process, Directories!spent
<1> QED
  BY <1>1 DEF DirectoryInv, DirectoryTypes, Named, Advanced, Directories!Writable,
     Directories!LegacyEntry, LeftAlone, AsRecorded, Directories!Unrecorded

\* DirectoriesRestored is what the invariant says of the outcomes.
LEMMA DirectoriesLeftWhole == DirectoryInv => Directories!DirectoriesRestored
<1> SUFFICES ASSUME DirectoryInv, changes = 0
             PROVE  /\ plans = "undone" => dir = original
                    /\ plans = "failed" => cuts > 0 /\
                           \E r \in Directories!Roles : Directories!Unrecorded(r)
                    /\ plans = "open" /\ step # "idle" => Directories!Writable(record.state,
                           record.entries)
  BY DEF Directories!DirectoriesRestored
<1>1. plans = "open" /\ step # "idle" => Directories!Writable(record.state, record.entries)
  BY DEF DirectoryInv, Named, Advanced
<1> QED BY <1>1 DEF DirectoryInv, LeftAlone

\* What a step makes was missing; the mode it repairs, and the directory it
\* restores or removes, are of the identity in the record.
LEMMA DirectoriesTouched ==
  DirectoryInv /\ Directories!Next /\ changes' = changes =>
    \A r \in Directories!Roles : dir'[r] # dir[r] =>
    dir[r] = Directories!Missing \/ record.entries[r].id = dir[r].id
<1> SUFFICES ASSUME DirectoryInv, Directories!Next, changes' = changes,
                 NEW r \in Directories!Roles, dir'[r] # dir[r], dir[r] # Directories!Missing
             PROVE  record.entries[r].id = dir[r].id
  OBVIOUS
<1> USE DEF Directories!Roles, Directories!SecretRoot, Directories!CompanionParent,
        Directories!Missing, Directory, Entries, Making, Creating, Tidying,
        DirectoryInv, DirectoryTypes, Directories!At, Directories!Go, Directories!Step,
        Directories!spent, Directories!process
<1>1. \/ Directories!MakeDirectory \/ Directories!VerifyDirectory \/ Directories!CleanDirectory
  <2>1. ~Directories!Edit
    BY DEF Directories!Edit
  <2>2. Directories!BeginCreate \/ Directories!WriteFiles \/ Directories!RecordPrepared
         \/ Directories!MakeCompanion \/ Directories!RecordReady \/ Directories!UseJournal
         \/ Directories!Reopen \/ Directories!MigrateMetadata \/ Directories!RemoveCompanion
         \/ Directories!Conflict \/ Directories!RecordCleaned \/ Directories!RecordComplete
         \/ Directories!Bury \/ Directories!Kill => dir' = dir
    BY DEF Directories!BeginCreate, Directories!WriteFiles, Directories!RecordPrepared,
       Directories!MakeCompanion, Directories!RecordReady, Directories!UseJournal,
       Directories!Reopen, Directories!MigrateMetadata, Directories!RemoveCompanion,
       Directories!Conflict, Directories!RecordCleaned, Directories!RecordComplete,
       Directories!Bury, Directories!Kill
  <2>3. ~(dir' = dir)
    OBVIOUS
  <2> QED BY <2>1, <2>2, <2>3, Zenon DEF Directories!Next, Directories!Create, Directories!Undo
<1>2. CASE Directories!MakeDirectory
  BY <1>2 DEF Directories!MakeDirectory, Directories!Here, Directories!Entry
<1>3. CASE Directories!VerifyDirectory
  <2>1. r = at /\ Directories!AsPlanned /\ dir' = [dir EXCEPT ![at].mode = "private"]
    BY <1>3 DEF Directories!VerifyDirectory
  <2>2. CASE Directories!Entry.existed
    BY <2>1, <2>2 DEF Directories!AsPlanned, Directories!Here, Directories!Entry
  <2>3. CASE ~Directories!Entry.existed
    <3>1. dir[at].mode = "private" /\ dir[at] \in Directory
      BY <2>1, <2>3 DEF Directories!AsPlanned, Directories!Here
    <3>2. dir'[at] = dir[at]
      BY <2>1, <3>1
    <3> QED BY <2>1, <3>2
  <2> QED BY <2>2, <2>3
<1>4. CASE Directories!CleanDirectory
  <2>1. /\ r = at /\ Directories!CleanSafe /\ record.protocol = "v2"
        /\ dir'[at] = Directories!Restored
    BY <1>4 DEF Directories!CleanDirectory, Named
  <2>2. Directories!Entry.id # "unknown"
    BY <2>1 DEF Named, Directories!Entry
  <2>3. CASE Directories!Entry.existed
    <3>1. Directories!SameIdentity /\ Directories!Entry.id # "none"
      BY <2>1, <2>3 DEF Directories!CleanSafe, Directories!AsBefore, Directories!AsAfter,
         Directories!Matches, Named, Directories!Entry
    <3> QED BY <2>1, <2>2, <3>1 DEF Directories!SameIdentity, Directories!Here, Directories!Entry
  <2>4. CASE ~Directories!Entry.existed
    <3>1. Directories!SameIdentity /\ Directories!Entry.id # "none"
      BY <2>1, <2>4 DEF Directories!CleanSafe, Directories!AsAfter, Directories!Matches,
         Directories!KnownIdentity, Directories!Here
    <3> QED BY <2>1, <2>2, <3>1 DEF Directories!SameIdentity, Directories!Here, Directories!Entry
  <2> QED BY <2>3, <2>4
<1> QED BY <1>1, <1>2, <1>3, <1>4

-----------------------------------------------------------------------------
(* The exchanges of the environment file.                                  *)

Ids == {"none", "first", "second", "third", "operator"}
Contents == {"none", "before", "after", "edited", "raw", "partial", "empty"}
\* A file that is there has a content; only the candidate of the publication
\* has the new one, or what the operator saved over it.
Sane(f) ==
    /\ f \in [id : Ids, content : Contents]
    /\ f.id = "none" <=> f.content = "none"
    /\ f.content = "after" => f.id \in {"second", "operator"}
Saving == {"save", "saved", "intent"}
Publishing == {"preparing", "create", "fill", "ready", "pending", "check", "publish", "observe",
               "clean", "clear", "done", "commit"}
Restoring == {"undo", "begin", "directory", "source", "candidate", "write", "pair", "exchange",
              "relocated", "applied", "move", "rename", "gone", "removed", "placeholder", "close",
              "forget", "check_undone"}
ExchangeTypes ==
    /\ Sane(env) /\ Sane(beside)
    /\ private \in [made : BOOLEAN, candidate : [id : Ids, content : Contents],
                    removed : [id : Ids, content : Contents]]
    /\ Sane(private.candidate) /\ Sane(private.removed)
    /\ saved \in [state : {"none", "preparing", "ready"}, absent : BOOLEAN,
                   digest : {"none", "before"}, file : BOOLEAN]
    /\ forward \in [phase : {"none", "preparing", "candidate_ready", "publish_pending", "applied"},
                    source : Ids, candidate : Ids]
    /\ reverse \in [phase : {"none", "preparing", "exchange_pending", "applied", "absence_pending",
                             "removed"}, source : Ids, candidate : Ids]
    /\ op \in [status : {"none", "intent", "done"}, undo : {"none", "intent", "done"}]
    /\ phase \in {"open", "rollback", "undone", "committed", "failed"}
    /\ place \in {"idle", "backup", "resume", "resumed", "complete"}
              \cup Saving \cup Publishing \cup Restoring
    /\ seen \in Ids \cup {"any"} /\ breaks \in Nat /\ touches \in Nat

\* The backup: of the file the transaction found, or of none.
Backed ==
    /\ saved.digest = IF saved.absent THEN "none" ELSE "before"
    /\ saved.file => ~saved.absent
    /\ saved.state = "none" <=> place = "backup"
    /\ place = "saved" \/ saved.state = "ready" => saved.file = ~saved.absent
    /\ saved.state # "ready" => /\ op.status = "none" /\ forward.phase = "none"
                                 /\ phase = "open" /\ place \in {"backup", "save", "saved", "idle"}
    /\ place = "backup" => env \in {Exchange!Missing, Exchange!File("first", "before")}

\* Which of the two exchanges is under way, and in which outcome.
Sided ==
    /\ place \in {"backup"} \cup Saving \cup Publishing => phase = "open"
    /\ place \in {"resume", "resumed", "complete"} \cup Restoring => phase = "rollback"
    /\ phase = "open" => reverse.phase = "none" /\ op.undo = "none"
    /\ phase \in {"undone", "committed"} => forward.phase = "none" /\ reverse.phase = "none"
    /\ place \in Restoring => op.status # "none" /\ forward.phase = "none"
    /\ place = "complete" => forward.phase = "none" /\ reverse.phase = "none"
    /\ place = "complete" \/ phase = "undone" => op.status = "none" \/ op.undo = "done"
    /\ reverse.phase # "none" => forward.phase = "none" /\ op.undo = "intent" /\ op.status # "none"
    /\ forward.phase # "none" => op.status = "intent" /\ op.undo = "none"
    /\ place \in {"backup"} \cup Saving => op.status = "none" /\ forward.phase = "none"
    /\ place = "begin" => op.undo = "intent"
    /\ place = "commit" => op.status = "done"
    /\ place \in {"preparing", "done"} => op.status = "intent"
    /\ place \in {"preparing", "done", "commit"} => forward.phase = "none"

\* The publication: its record, what it saw and the file beside it.
Owners == {"none", "first", "operator"}
Published ==
    /\ forward.phase = "none" => forward = Exchange!NoWal /\ beside = Exchange!Missing
    /\ forward.phase # "none" =>
         /\ forward.source \in Owners /\ (forward.source = "none" <=> saved.absent)
         /\ forward.candidate = IF forward.phase = "preparing" THEN "none" ELSE "second"
    /\ place \in Saving => env.id \in Owners
    /\ place = "preparing" => seen \in Owners /\ (seen = "none" <=> saved.absent)
    /\ place \in {"create", "fill", "ready", "pending", "check", "publish", "observe", "clean"}
         => forward.source = seen
    /\ place \in {"create", "fill", "ready"} => forward.phase = "preparing"
    /\ place = "pending" => forward.phase = "candidate_ready"
    /\ place \in {"check", "publish", "observe"} => forward.phase = "publish_pending"
    /\ place \in {"clean", "clear"} => forward.phase = "applied"
    /\ place \in {"create", "clear", "resumed"} => beside = Exchange!Missing
    /\ place = "fill" => beside = Exchange!File("second", "partial")
    /\ place \in {"ready", "pending", "check", "publish"} => beside = Exchange!File("second",
           "after")

\* The restoration: its record, what it saw and its private directory.
PutBack ==
    /\ reverse.phase = "none" => reverse = Exchange!NoWal /\ private = Exchange!NoDirectory
    /\ reverse.phase = "preparing" =>
         /\ reverse.source = "none" /\ reverse.candidate = "none"
         /\ \/ private.candidate = Exchange!Missing
            \/ /\ private.candidate.id = "third"
               /\ private.candidate.content \in {"raw", "partial", "empty", "before"}
    /\ reverse.phase \notin {"none", "preparing"} =>
         reverse.source \in {"second", "operator"} /\ reverse.candidate = "third"
    /\ reverse.phase \in {"absence_pending", "removed"} => saved.absent
    /\ reverse.phase \notin {"absence_pending", "removed"} => private.removed = Exchange!Missing
    /\ reverse.phase = "removed" => private.removed \in {Exchange!Missing, Exchange!File("third",
           "empty")}
    /\ place \in {"begin", "check_undone"} => reverse.phase = "none"
    /\ place = "directory" => reverse.phase # "none"
    /\ place \in {"source", "candidate", "write"} => reverse.phase = "preparing"
    /\ place \in {"pair", "exchange", "relocated"} => reverse.phase = "exchange_pending"
    /\ place = "applied" => reverse.phase = "applied"
    /\ place \in {"move", "rename", "gone"} => reverse.phase = "absence_pending"
    /\ place \in {"removed", "placeholder"} => reverse.phase = "removed"
    /\ place \in {"close", "forget"} => reverse.phase \in {"applied", "removed"}
    /\ place \in {"candidate", "write"} => seen \in {"second", "operator"}
    /\ place = "write" => private.candidate.id = "third"
    /\ place = "rename" => private.removed = Exchange!Missing
    /\ place \in {"placeholder", "close"} => private.candidate = Exchange!Missing
    /\ place = "close" => private.removed = Exchange!Missing
    /\ place = "forget" => private = Exchange!NoDirectory

\* The file, as long as the operator leaves it alone: what was there, what was
\* published, and what the restoration puts in its place.
Old == IF saved.absent THEN Exchange!Missing ELSE Exchange!File("first", "before")
New == Exchange!File("second", "after")
Put == Exchange!File("third", IF saved.absent THEN "empty" ELSE "before")
Back == IF saved.absent THEN Exchange!Missing ELSE Put
OnWay ==
    /\ phase \in {"rollback", "undone", "failed"} \/ (place = "idle" /\ phase = "open") =>
           breaks > 0
    /\ phase = "failed" => Exchange!HalfMade
    /\ op.status = "none" => env \in {Exchange!Missing, Exchange!File("first", "before")}
    /\ op.status # "none" /\ forward.phase = "none" /\ reverse.phase = "none"
         => env \in {Old, New, Back}
    /\ op.status = "done" /\ op.undo = "none" => env = New
    /\ op.undo = "done" => env \in {Old, Back}
Forth ==
    /\ place \in Saving => env = Old
    /\ place = "preparing" => env = Old /\ seen = Old.id
    /\ forward.phase # "none" => forward.source = Old.id
    /\ forward.phase \in {"preparing", "candidate_ready"} =>
         /\ env = Old
         /\ \/ beside \in {Exchange!Missing, New}
            \/ forward.phase = "preparing" /\ beside = Exchange!File("second", "partial")
    /\ forward.phase = "publish_pending" =>
         \/ env = Old /\ beside \in {Exchange!Missing, New}
         \/ env = New /\ beside \in {Exchange!Missing, Old}
    /\ forward.phase = "applied" => env = New /\ beside \in {Exchange!Missing, Old}
    /\ place \in {"check", "publish"} => env = Old
    /\ place = "observe" => env = New /\ beside = Old
    /\ place \in {"done", "commit"} => env = New
Aback ==
    /\ place = "begin" => env = New
    /\ reverse.phase = "preparing" => env = New
    /\ place \in {"directory", "source"} => seen \in {"any", "second"}
    /\ place \in {"candidate", "write"} => seen = "second"
    /\ reverse.phase \notin {"none", "preparing"} => reverse.source = "second"
    /\ reverse.phase = "exchange_pending" =>
         \/ env = New /\ private.candidate = Put /\ place # "relocated"
         \/ env = Put /\ private.candidate = New /\ place # "exchange"
    /\ reverse.phase = "applied" =>
         /\ env = Put /\ private.candidate \in {Exchange!Missing, New}
         /\ saved.absent => private.candidate = New
    /\ reverse.phase = "absence_pending" =>
         /\ private.candidate = New
         /\ \/ env = Put /\ private.removed = Exchange!Missing /\ place # "gone"
            \/ env = Exchange!Missing /\ private.removed = Put /\ place # "rename"
    /\ reverse.phase = "removed" => env = Exchange!Missing /\
           private.candidate \in {Exchange!Missing, New}
    /\ place = "check_undone" => env = Back
ExchangeInv ==
    /\ ExchangeTypes /\ Backed /\ Sided /\ Published /\ PutBack
    /\ touches = 0 => OnWay /\ Forth /\ Aback

\* One case for each step of the publication, of its resumption and of the
\* restoration, for a kill and for an edit.
LEMMA ExchangeSteps == ExchangeInv /\ Exchange!Next => ExchangeInv'
<1> SUFFICES ASSUME ExchangeInv, Exchange!Next PROVE ExchangeInv'
  OBVIOUS
<1> USE DEF Exchange!At, Exchange!Go, Exchange!GiveUp, Exchange!Fail, Exchange!Is, Exchange!File,
        Exchange!Missing, Exchange!NoWal, Exchange!Wal, Exchange!NoDirectory, Exchange!Before,
        Exchange!BeforeAbsent,
        Exchange!files, Exchange!journal, Exchange!process, Exchange!spent, Exchange!vars, Ids,
        Contents, Sane, Saving, Publishing, Restoring, Owners,
        Old, New, Put, Back, ExchangeTypes
<1>a. \A x, y \in [id : Ids, content : Contents] : x.id = y.id /\ x.content = y.content => x = y
  OBVIOUS
<1>b. ExchangeTypes /\ Backed /\ Sided /\ Published /\ PutBack /\ (touches = 0 => OnWay /\
          Forth /\ Aback)
  BY DEF ExchangeInv
<1> USE <1>b
<1>1. CASE Exchange!PrepareBackup
  <2>0. /\ place = "backup" /\ place' = "save" /\ phase = "open"
        /\ UNCHANGED <<env, beside, private, forward, reverse, op, phase, seen, breaks, touches>>
        /\ saved' = [state |-> "preparing", absent |-> env = Exchange!Missing,
                      digest |-> env.content, file |-> FALSE]
    BY <1>1 DEF Exchange!PrepareBackup, Sided
  <2>a. /\ saved'.state = "preparing" /\ saved'.file = FALSE
        /\ saved'.absent = (env = Exchange!Missing) /\ saved'.digest = env.content
    BY <2>0
  <2>b. /\ env \in {Exchange!Missing, Exchange!File("first", "before")}
        /\ env = Exchange!Missing => saved'.absent = TRUE /\ saved'.digest = "none"
        /\ env # Exchange!Missing => saved'.absent = FALSE /\ saved'.digest = "before"
    <3>1. env \in {Exchange!Missing, Exchange!File("first", "before")}
      BY <2>0 DEF Backed
    <3>2. CASE env = Exchange!Missing
      <4>1. saved'.absent = TRUE
        BY ONLY <2>a, <3>2, Zenon
      <4> QED BY <2>a, <3>2, <4>1
    <3>3. CASE env # Exchange!Missing
      <4>1. saved'.absent = FALSE
        BY ONLY <2>a, <3>3, Zenon
      <4> QED BY <2>a, <3>1, <3>3, <4>1
    <3> QED BY <3>1, <3>2, <3>3
  <2>c. saved' \in [state : {"none", "preparing", "ready"}, absent : BOOLEAN,
                    digest : {"none", "before"}, file : BOOLEAN]
    BY <2>0, <2>b
  <2>1. ExchangeTypes'
    BY <2>0, <2>a, <2>b, <2>c
  <2>2. Backed'
    BY <2>0, <2>a, <2>b, <2>c DEF Backed, Sided
  <2>3. Sided'
    BY <2>0 DEF Sided
  <2>4. Published'
    BY <2>0, <2>a, <2>b, <2>c DEF Sided, Published
  <2>5. PutBack'
    BY <2>0 DEF Sided, PutBack
  <2>6. touches' = 0 => OnWay'
    BY <2>0 DEF Sided, OnWay
  <2>7. touches' = 0 => Forth'
    BY <2>0, <2>a, <2>b, <2>c DEF Sided, Forth
  <2>8. touches' = 0 => Aback'
    BY <2>0 DEF Sided, Aback
  <2> QED BY <2>1, <2>2, <2>3, <2>4, <2>5, <2>6, <2>7, <2>8, Zenon DEF ExchangeInv
<1>2. CASE Exchange!SaveBackup
  <2>0. /\ place = "save" /\ place' = "saved" /\ phase = "open"
        /\ UNCHANGED <<env, beside, private, forward, reverse, op, phase, seen, breaks, touches>>
        /\ saved' = [saved EXCEPT !.file = ~saved.absent]
    BY <1>2 DEF Exchange!SaveBackup, Sided
  <2>a. /\ saved'.file = ~saved.absent /\ saved'.state = saved.state
        /\ saved'.absent = saved.absent /\ saved'.digest = saved.digest
        /\ saved' \in [state : {"none", "preparing", "ready"}, absent : BOOLEAN,
                   digest : {"none", "before"}, file : BOOLEAN]
    BY <2>0
  <2>1. ExchangeTypes'
    BY <2>0, <2>a
  <2>2. Backed'
    BY <2>0, <2>a DEF Backed
  <2>3. Sided'
    BY <2>0 DEF Sided
  <2>4. Published'
    BY <2>0, <2>a DEF Published
  <2>5. PutBack'
    BY <2>0, <2>a DEF PutBack
  <2>6. touches' = 0 => OnWay'
    BY <2>0, <2>a DEF OnWay
  <2>7. touches' = 0 => Forth'
    BY <2>0, <2>a DEF Forth
  <2>8. touches' = 0 => Aback'
    BY <2>0, <2>a DEF Aback
  <2> QED BY <2>1, <2>2, <2>3, <2>4, <2>5, <2>6, <2>7, <2>8, Zenon DEF ExchangeInv
<1>3. CASE Exchange!BackupReady
  <2>1. ExchangeTypes'
    BY <1>3 DEF Exchange!BackupReady
  <2>2. Backed'
    BY <1>3, <2>1 DEF Exchange!BackupReady, Backed
  <2>3. Sided'
    BY <1>3, <2>1 DEF Exchange!BackupReady, Sided
  <2>4. Published'
    BY <1>3, <2>1 DEF Exchange!BackupReady, Published
  <2>5. PutBack'
    BY <1>3, <2>1 DEF Exchange!BackupReady, PutBack
  <2>6. touches' = 0 => OnWay'
    BY <1>3, <2>1 DEF Exchange!BackupReady, OnWay, Sided
  <2>7. touches' = 0 => Forth'
    BY <1>3, <2>1 DEF Exchange!BackupReady, Forth
  <2>8. touches' = 0 => Aback'
    BY <1>3, <2>1 DEF Exchange!BackupReady, Aback
  <2> QED BY <2>1, <2>2, <2>3, <2>4, <2>5, <2>6, <2>7, <2>8, Zenon DEF ExchangeInv
<1>4. CASE Exchange!RecordIntent
  <2>1. ExchangeTypes'
    BY <1>4 DEF Exchange!RecordIntent
  <2>2. Backed'
    BY <1>4, <2>1 DEF Exchange!RecordIntent, Backed
  <2>3. Sided'
    BY <1>4, <2>1 DEF Exchange!RecordIntent, Sided
  <2>4. Published'
    BY <1>4, <2>1 DEF Exchange!RecordIntent, Published, Backed, Sided
  <2>5. PutBack'
    BY <1>4, <2>1 DEF Exchange!RecordIntent, PutBack
  <2>6. touches' = 0 => OnWay'
    BY <1>4, <2>1 DEF Exchange!RecordIntent, OnWay, Backed, Sided, Published, PutBack, Forth, Aback
  <2>7. touches' = 0 => Forth'
    BY <1>4, <2>1 DEF Exchange!RecordIntent, Forth
  <2>8. touches' = 0 => Aback'
    BY <1>4, <2>1 DEF Exchange!RecordIntent, Aback
  <2> QED BY <2>1, <2>2, <2>3, <2>4, <2>5, <2>6, <2>7, <2>8, Zenon DEF ExchangeInv
<1>5. CASE Exchange!BeginPublication
  <2>1. ExchangeTypes'
    BY <1>5 DEF Exchange!BeginPublication, Exchange!WriteForward, Published
  <2>2. Backed'
    BY <1>5, <2>1 DEF Exchange!BeginPublication, Exchange!WriteForward, Backed
  <2>3. Sided'
    BY <1>5, <2>1 DEF Exchange!BeginPublication, Exchange!WriteForward, Sided
  <2>4. Published'
    BY <1>5, <2>1 DEF Exchange!BeginPublication, Exchange!WriteForward, Published, Sided
  <2>5. PutBack'
    BY <1>5, <2>1 DEF Exchange!BeginPublication, Exchange!WriteForward, PutBack
  <2>6. touches' = 0 => OnWay'
    BY <1>5, <2>1 DEF Exchange!BeginPublication, Exchange!WriteForward, OnWay, Sided, Published,
       Forth
  <2>7. touches' = 0 => Forth'
    BY <1>5, <2>1 DEF Exchange!BeginPublication, Exchange!WriteForward, Forth, Published
  <2>8. touches' = 0 => Aback'
    BY <1>5, <2>1 DEF Exchange!BeginPublication, Exchange!WriteForward, Aback
  <2> QED BY <2>1, <2>2, <2>3, <2>4, <2>5, <2>6, <2>7, <2>8, Zenon DEF ExchangeInv
<1>6. CASE Exchange!CreateCandidate
  <2>1. ExchangeTypes'
    BY <1>6 DEF Exchange!CreateCandidate
  <2>2. Backed'
    BY <1>6, <2>1 DEF Exchange!CreateCandidate, Backed
  <2>3. Sided'
    BY <1>6, <2>1 DEF Exchange!CreateCandidate, Sided
  <2>4. Published'
    BY <1>6, <2>1 DEF Exchange!CreateCandidate, Published
  <2>5. PutBack'
    BY <1>6, <2>1 DEF Exchange!CreateCandidate, PutBack
  <2>6. touches' = 0 => OnWay'
    BY <1>6, <2>1 DEF Exchange!CreateCandidate, OnWay, Sided
  <2>7. touches' = 0 => Forth'
    BY <1>6, <2>1 DEF Exchange!CreateCandidate, Forth, Published
  <2>8. touches' = 0 => Aback'
    BY <1>6, <2>1 DEF Exchange!CreateCandidate, Aback
  <2> QED BY <2>1, <2>2, <2>3, <2>4, <2>5, <2>6, <2>7, <2>8, Zenon DEF ExchangeInv
<1>7. CASE Exchange!FillCandidate
  <2>1. ExchangeTypes'
    BY <1>7 DEF Exchange!FillCandidate
  <2>2. Backed'
    BY <1>7, <2>1 DEF Exchange!FillCandidate, Backed
  <2>3. Sided'
    BY <1>7, <2>1 DEF Exchange!FillCandidate, Sided
  <2>4. Published'
    BY <1>7, <2>1 DEF Exchange!FillCandidate, Published
  <2>5. PutBack'
    BY <1>7, <2>1 DEF Exchange!FillCandidate, PutBack
  <2>6. touches' = 0 => OnWay'
    BY <1>7, <2>1 DEF Exchange!FillCandidate, OnWay, Sided
  <2>7. touches' = 0 => Forth'
    BY <1>7, <2>1 DEF Exchange!FillCandidate, Forth, Published
  <2>8. touches' = 0 => Aback'
    BY <1>7, <2>1 DEF Exchange!FillCandidate, Aback
  <2> QED BY <2>1, <2>2, <2>3, <2>4, <2>5, <2>6, <2>7, <2>8, Zenon DEF ExchangeInv
<1>8. CASE Exchange!CandidateReady
  <2>1. ExchangeTypes'
    BY <1>8 DEF Exchange!CandidateReady, Exchange!WriteForward, Published
  <2>2. Backed'
    BY <1>8, <2>1 DEF Exchange!CandidateReady, Exchange!WriteForward, Backed
  <2>3. Sided'
    BY <1>8, <2>1 DEF Exchange!CandidateReady, Exchange!WriteForward, Sided, Published
  <2>4. Published'
    BY <1>8, <2>1 DEF Exchange!CandidateReady, Exchange!WriteForward, Published
  <2>5. PutBack'
    BY <1>8, <2>1 DEF Exchange!CandidateReady, Exchange!WriteForward, PutBack
  <2>6. touches' = 0 => OnWay'
    BY <1>8, <2>1 DEF Exchange!CandidateReady, Exchange!WriteForward, OnWay, Sided
  <2>7. touches' = 0 => Forth'
    BY <1>8, <2>1 DEF Exchange!CandidateReady, Exchange!WriteForward, Forth, Published
  <2>8. touches' = 0 => Aback'
    BY <1>8, <2>1 DEF Exchange!CandidateReady, Exchange!WriteForward, Aback
  <2> QED BY <2>1, <2>2, <2>3, <2>4, <2>5, <2>6, <2>7, <2>8, Zenon DEF ExchangeInv
<1>9. CASE Exchange!PublishPending
  <2>1. ExchangeTypes'
    BY <1>9 DEF Exchange!PublishPending, Exchange!WriteForward, Published
  <2>2. Backed'
    BY <1>9, <2>1 DEF Exchange!PublishPending, Exchange!WriteForward, Backed
  <2>3. Sided'
    BY <1>9, <2>1 DEF Exchange!PublishPending, Exchange!WriteForward, Sided, Published
  <2>4. Published'
    BY <1>9, <2>1 DEF Exchange!PublishPending, Exchange!WriteForward, Published
  <2>5. PutBack'
    BY <1>9, <2>1 DEF Exchange!PublishPending, Exchange!WriteForward, PutBack
  <2>6. touches' = 0 => OnWay'
    BY <1>9, <2>1 DEF Exchange!PublishPending, Exchange!WriteForward, OnWay, Sided
  <2>7. touches' = 0 => Forth'
    BY <1>9, <2>1 DEF Exchange!PublishPending, Exchange!WriteForward, Forth, Published
  <2>8. touches' = 0 => Aback'
    BY <1>9, <2>1 DEF Exchange!PublishPending, Exchange!WriteForward, Aback
  <2> QED BY <2>1, <2>2, <2>3, <2>4, <2>5, <2>6, <2>7, <2>8, Zenon DEF ExchangeInv
<1>10. CASE Exchange!CheckSource
  <2>1. ExchangeTypes'
    BY <1>10 DEF Exchange!CheckSource, Exchange!ForwardSourceUnchanged
  <2>2. Backed'
    BY <1>10, <2>1 DEF Exchange!CheckSource, Exchange!ForwardSourceUnchanged, Backed
  <2>3. Sided'
    BY <1>10, <2>1 DEF Exchange!CheckSource, Exchange!ForwardSourceUnchanged, Sided
  <2>4. Published'
    BY <1>10, <2>1 DEF Exchange!CheckSource, Exchange!ForwardSourceUnchanged, Published
  <2>5. PutBack'
    BY <1>10, <2>1 DEF Exchange!CheckSource, Exchange!ForwardSourceUnchanged, PutBack
  <2>6. touches' = 0 => OnWay'
    BY <1>10, <2>1 DEF Exchange!CheckSource, Exchange!ForwardSourceUnchanged, OnWay, Backed,
       Sided, Published, PutBack, Forth, Aback
  <2>7. touches' = 0 => Forth'
    BY <1>10, <2>1 DEF Exchange!CheckSource, Exchange!ForwardSourceUnchanged, Forth
  <2>8. touches' = 0 => Aback'
    BY <1>10, <2>1 DEF Exchange!CheckSource, Exchange!ForwardSourceUnchanged, Aback
  <2> QED BY <2>1, <2>2, <2>3, <2>4, <2>5, <2>6, <2>7, <2>8, Zenon DEF ExchangeInv
<1>11. CASE Exchange!Publish
  <2>1. ExchangeTypes'
    BY <1>11 DEF Exchange!Publish
  <2>2. Backed'
    BY <1>11, <2>1 DEF Exchange!Publish, Backed
  <2>3. Sided'
    BY <1>11, <2>1 DEF Exchange!Publish, Sided
  <2>4. Published'
    BY <1>11, <2>1 DEF Exchange!Publish, Published
  <2>5. PutBack'
    BY <1>11, <2>1 DEF Exchange!Publish, PutBack
  <2>6. touches' = 0 => OnWay'
    BY <1>11, <2>1 DEF Exchange!Publish, OnWay, Sided, Published, Forth
  <2>7. touches' = 0 => Forth'
    BY <1>11, <2>1 DEF Exchange!Publish, Forth, Published
  <2>8. touches' = 0 => Aback'
    BY <1>11, <2>1 DEF Exchange!Publish, Aback, Sided
  <2> QED BY <2>1, <2>2, <2>3, <2>4, <2>5, <2>6, <2>7, <2>8, Zenon DEF ExchangeInv
<1>12. CASE Exchange!Observe
  <2>1. ExchangeTypes'
    BY <1>12 DEF Exchange!Observe, Exchange!WriteForward, Published
  <2>2. Backed'
    BY <1>12, <2>1 DEF Exchange!Observe, Exchange!WriteForward, Backed
  <2>3. Sided'
    BY <1>12, <2>1 DEF Exchange!Observe, Exchange!WriteForward, Sided, Published
  <2>4. Published'
    BY <1>12, <2>1 DEF Exchange!Observe, Exchange!WriteForward, Published
  <2>5. PutBack'
    BY <1>12, <2>1 DEF Exchange!Observe, Exchange!WriteForward, PutBack
  <2>6. touches' = 0 => OnWay'
    BY <1>12, <2>1 DEF Exchange!Observe, Exchange!WriteForward, OnWay, Sided, Published, Forth
  <2>7. touches' = 0 => Forth'
    BY <1>12, <2>1 DEF Exchange!Observe, Exchange!WriteForward, Forth, Published
  <2>8. touches' = 0 => Aback'
    BY <1>12, <2>1 DEF Exchange!Observe, Exchange!WriteForward, Aback
  <2> QED BY <2>1, <2>2, <2>3, <2>4, <2>5, <2>6, <2>7, <2>8, Zenon DEF ExchangeInv
<1>13. CASE Exchange!UnlinkOld
  <2>1. ExchangeTypes'
    BY <1>13 DEF Exchange!UnlinkOld, Exchange!OldContentOnly
  <2>2. Backed'
    BY <1>13, <2>1 DEF Exchange!UnlinkOld, Exchange!OldContentOnly, Backed
  <2>3. Sided'
    BY <1>13, <2>1 DEF Exchange!UnlinkOld, Exchange!OldContentOnly, Sided
  <2>4. Published'
    BY <1>13, <2>1 DEF Exchange!UnlinkOld, Exchange!OldContentOnly, Published
  <2>5. PutBack'
    BY <1>13, <2>1 DEF Exchange!UnlinkOld, Exchange!OldContentOnly, PutBack
  <2>6. touches' = 0 => OnWay'
    BY <1>13, <2>1 DEF Exchange!UnlinkOld, Exchange!OldContentOnly, OnWay, Backed, Sided,
       Published, PutBack, Forth, Aback
  <2>7. touches' = 0 => Forth'
    BY <1>13, <2>1 DEF Exchange!UnlinkOld, Exchange!OldContentOnly, Forth
  <2>8. touches' = 0 => Aback'
    BY <1>13, <2>1 DEF Exchange!UnlinkOld, Exchange!OldContentOnly, Aback
  <2> QED BY <2>1, <2>2, <2>3, <2>4, <2>5, <2>6, <2>7, <2>8, Zenon DEF ExchangeInv
<1>14. CASE Exchange!ClearForward
  <2>1. ExchangeTypes'
    BY <1>14 DEF Exchange!ClearForward
  <2>2. Backed'
    BY <1>14, <2>1 DEF Exchange!ClearForward, Backed
  <2>3. Sided'
    BY <1>14, <2>1 DEF Exchange!ClearForward, Sided, Published
  <2>4. Published'
    BY <1>14, <2>1 DEF Exchange!ClearForward, Published
  <2>5. PutBack'
    BY <1>14, <2>1 DEF Exchange!ClearForward, PutBack
  <2>6. touches' = 0 => OnWay'
    BY <1>14, <2>1 DEF Exchange!ClearForward, OnWay, Sided, Published, Forth
  <2>7. touches' = 0 => Forth'
    BY <1>14, <2>1 DEF Exchange!ClearForward, Forth, Published
  <2>8. touches' = 0 => Aback'
    BY <1>14, <2>1 DEF Exchange!ClearForward, Aback
  <2> QED BY <2>1, <2>2, <2>3, <2>4, <2>5, <2>6, <2>7, <2>8, Zenon DEF ExchangeInv
<1>15. CASE Exchange!RecordDone
  <2>1. ExchangeTypes'
    BY <1>15 DEF Exchange!RecordDone
  <2>2. Backed'
    BY <1>15, <2>1 DEF Exchange!RecordDone, Backed
  <2>3. Sided'
    BY <1>15, <2>1 DEF Exchange!RecordDone, Sided
  <2>4. Published'
    BY <1>15, <2>1 DEF Exchange!RecordDone, Published
  <2>5. PutBack'
    BY <1>15, <2>1 DEF Exchange!RecordDone, PutBack
  <2>6. touches' = 0 => OnWay'
    BY <1>15, <2>1 DEF Exchange!RecordDone, OnWay, Sided, Published, Forth
  <2>7. touches' = 0 => Forth'
    BY <1>15, <2>1 DEF Exchange!RecordDone, Forth
  <2>8. touches' = 0 => Aback'
    BY <1>15, <2>1 DEF Exchange!RecordDone, Aback
  <2> QED BY <2>1, <2>2, <2>3, <2>4, <2>5, <2>6, <2>7, <2>8, Zenon DEF ExchangeInv
<1>16. CASE Exchange!Commit
  <2>1. ExchangeTypes'
    BY <1>16 DEF Exchange!Commit
  <2>2. Backed'
    BY <1>16, <2>1 DEF Exchange!Commit, Backed
  <2>3. Sided'
    BY <1>16, <2>1 DEF Exchange!Commit, Sided
  <2>4. Published'
    BY <1>16, <2>1 DEF Exchange!Commit, Published
  <2>5. PutBack'
    BY <1>16, <2>1 DEF Exchange!Commit, PutBack
  <2>6. touches' = 0 => OnWay'
    BY <1>16, <2>1 DEF Exchange!Commit, OnWay, Sided
  <2>7. touches' = 0 => Forth'
    BY <1>16, <2>1 DEF Exchange!Commit, Forth
  <2>8. touches' = 0 => Aback'
    BY <1>16, <2>1 DEF Exchange!Commit, Aback
  <2> QED BY <2>1, <2>2, <2>3, <2>4, <2>5, <2>6, <2>7, <2>8, Zenon DEF ExchangeInv
<1>17. CASE Exchange!Reopen
  <2>0. /\ place = "idle" /\ place' = "resume" /\ phase \in {"open", "rollback"} /\
               phase' = "rollback"
        /\ UNCHANGED <<env, beside, private, forward, reverse, op, seen, breaks, touches>>
        /\ saved.state # "none"
    BY <1>17 DEF Exchange!Reopen
  <2>a. /\ saved'.state = "ready" /\ saved'.file = ~saved'.absent
        /\ saved'.digest = IF saved'.absent THEN "none" ELSE "before"
        /\ saved' \in [state : {"none", "preparing", "ready"}, absent : BOOLEAN,
                   digest : {"none", "before"}, file : BOOLEAN]
        /\ saved.state = "ready" => saved' = saved
    <3>1. CASE saved.state = "ready"
      BY <1>17, <3>1 DEF Exchange!Reopen, Backed
    <3>2. CASE saved.state # "ready"
      <4>1. saved' = [saved EXCEPT !.state = "ready", !.absent = ~saved.file,
                                     !.digest = IF saved.file THEN saved.digest ELSE "none"]
        BY <1>17, <3>2 DEF Exchange!Reopen
      <4> QED BY <3>2, <4>1 DEF Backed
    <3> QED BY <3>1, <3>2
  <2>1. ExchangeTypes'
    BY <2>0, <2>a
  <2>2. Backed'
    BY <2>0, <2>a DEF Backed
  <2>3. Sided'
    BY <2>0 DEF Sided
  <2>4. Published'
    BY <2>0, <2>a DEF Backed, Published
  <2>5. PutBack'
    BY <2>0, <2>a DEF Backed, Sided, PutBack
  <2>b. saved.state # "ready" => op.status = "none" /\ forward.phase = "none" /\
            reverse.phase = "none"
    BY <2>0 DEF Backed, Sided
  <2>6. touches' = 0 => OnWay'
    <3>1. CASE saved' = saved
      BY <2>0, <3>1 DEF OnWay
    <3>2. CASE saved.state # "ready"
      BY <2>0, <2>b, <3>2 DEF OnWay, Backed, Sided
    <3> QED BY <2>a, <2>b, <3>1, <3>2
  <2>7. touches' = 0 => Forth'
    BY <2>0, <2>a, <2>b DEF Forth
  <2>8. touches' = 0 => Aback'
    BY <2>0, <2>a, <2>b DEF Aback
  <2> QED BY <2>1, <2>2, <2>3, <2>4, <2>5, <2>6, <2>7, <2>8, Zenon DEF ExchangeInv
<1>18. CASE Exchange!ResumeForward
  <2>0. /\ place = "resume" /\ phase = "rollback"
        /\ UNCHANGED <<env, private, saved, forward, reverse, op, seen, breaks, touches>>
        /\ \/ place' = "resumed" /\ phase' = phase /\ beside' = Exchange!Missing
           \/ place' = "idle" /\ phase' = "failed" /\ beside' = beside /\ ~Exchange!ForwardSafe
    BY <1>18 DEF Exchange!ResumeForward, Sided, Published
  <2>a. Sane(beside')
    BY <2>0
  <2>1. ExchangeTypes'
    BY <2>0, <2>a
  <2>2. Backed'
    BY <2>0 DEF Backed
  <2>3. Sided'
    BY <2>0 DEF Sided
  <2>4. Published'
    BY <2>0 DEF Published
  <2>5. PutBack'
    BY <2>0 DEF PutBack
  <2>6. touches' = 0 => OnWay'
    <3> SUFFICES ASSUME touches = 0 PROVE OnWay'
      BY <2>0
    <3>0. Forth /\ touches = 0
      OBVIOUS
    <3>1. ~Exchange!ForwardSafe => beside.content = "partial"
      <4>1. CASE forward.phase = "none"
        BY ONLY <4>1 DEF Exchange!ForwardSafe
      <4>2. CASE forward.phase = "preparing"
        <5>1. Exchange!ForwardSafe <=> (Exchange!EnvBefore /\
                  (beside = Exchange!Missing \/ beside.content = "after"))
          BY ONLY <4>2, Zenon DEF Exchange!ForwardSafe
        <5> QED BY <3>0, <4>2, <5>1 DEF Exchange!EnvBefore, Forth, Backed, Published
      <4>3. CASE forward.phase = "candidate_ready"
        <5>1. Exchange!ForwardSafe <=> Exchange!PreState
          BY ONLY <4>3, Zenon DEF Exchange!ForwardSafe
        <5> QED BY <3>0, <4>3, <5>1 DEF Exchange!PreState, Exchange!EnvBefore,
                Exchange!CandidateAfter, Forth, Backed, Published
      <4>4. CASE forward.phase = "publish_pending"
        <5>1. Exchange!ForwardSafe <=> (Exchange!PreState \/ Exchange!PostState)
          BY ONLY <4>4, Zenon DEF Exchange!ForwardSafe
        <5> QED BY <3>0, <4>4, <5>1 DEF Exchange!PreState, Exchange!PostState, Exchange!EnvBefore,
                Exchange!EnvAfter, Exchange!CandidateAfter,
                   Exchange!CandidateBefore, Forth, Backed, Published
      <4>5. CASE forward.phase = "applied"
        <5>1. Exchange!ForwardSafe <=> Exchange!PostState
          BY ONLY <4>5, Zenon DEF Exchange!ForwardSafe
        <5> QED BY <3>0, <4>5, <5>1 DEF Exchange!PostState, Exchange!EnvAfter,
                Exchange!CandidateBefore, Forth, Backed, Published
      <4> QED BY <4>1, <4>2, <4>3, <4>4, <4>5
    <3>2. ~Exchange!ForwardSafe => Exchange!HalfMade
      BY <3>1 DEF Exchange!HalfMade, Exchange!Everywhere
    <3>3. phase' = "failed" => Exchange!HalfMade'
      BY <2>0, <3>2 DEF Exchange!HalfMade, Exchange!Everywhere
    <3> QED BY <2>0, <3>3 DEF OnWay
  <2>7. touches' = 0 => Forth'
    BY <2>0 DEF Forth
  <2>8. touches' = 0 => Aback'
    BY <2>0 DEF Aback
  <2> QED BY <2>1, <2>2, <2>3, <2>4, <2>5, <2>6, <2>7, <2>8, Zenon DEF ExchangeInv
<1>19. CASE Exchange!ForwardResumed
  <2>1. ExchangeTypes'
    BY <1>19 DEF Exchange!ForwardResumed
  <2>2. Backed'
    BY <1>19, <2>1 DEF Exchange!ForwardResumed, Backed
  <2>3. Sided'
    BY <1>19, <2>1 DEF Exchange!ForwardResumed, Sided
  <2>4. Published'
    BY <1>19, <2>1 DEF Exchange!ForwardResumed, Published
  <2>5. PutBack'
    BY <1>19, <2>1 DEF Exchange!ForwardResumed, PutBack
  <2>6. touches' = 0 => OnWay'
    BY <1>19, <2>1 DEF Exchange!ForwardResumed, OnWay, Sided, Published, Forth
  <2>7. touches' = 0 => Forth'
    BY <1>19, <2>1 DEF Exchange!ForwardResumed, Forth
  <2>8. touches' = 0 => Aback'
    BY <1>19, <2>1 DEF Exchange!ForwardResumed, Aback
  <2> QED BY <2>1, <2>2, <2>3, <2>4, <2>5, <2>6, <2>7, <2>8, Zenon DEF ExchangeInv
<1>20. CASE Exchange!ContinueRestore
  <2>1. ExchangeTypes'
    BY <1>20 DEF Exchange!ContinueRestore, Exchange!Restorable
  <2>2. Backed'
    BY <1>20, <2>1 DEF Exchange!ContinueRestore, Exchange!Restorable, Backed
  <2>3. Sided'
    BY <1>20, <2>1 DEF Exchange!ContinueRestore, Exchange!Restorable, Sided
  <2>4. Published'
    BY <1>20, <2>1 DEF Exchange!ContinueRestore, Exchange!Restorable, Published
  <2>5. PutBack'
    BY <1>20, <2>1 DEF Exchange!ContinueRestore, Exchange!Restorable, PutBack
  <2>6. touches' = 0 => OnWay'
    BY <1>20, <2>1 DEF Exchange!ContinueRestore, Exchange!Restorable, OnWay, Backed, Sided,
       Published, PutBack, Forth, Aback
  <2>7. touches' = 0 => Forth'
    BY <1>20, <2>1 DEF Exchange!ContinueRestore, Exchange!Restorable, Forth
  <2>8. touches' = 0 => Aback'
    BY <1>20, <2>1 DEF Exchange!ContinueRestore, Exchange!Restorable, Aback
  <2> QED BY <2>1, <2>2, <2>3, <2>4, <2>5, <2>6, <2>7, <2>8, Zenon DEF ExchangeInv
<1>21. CASE Exchange!NothingToUndo
  <2>1. ExchangeTypes'
    BY <1>21 DEF Exchange!NothingToUndo, Exchange!NotExecuted
  <2>2. Backed'
    BY <1>21, <2>1 DEF Exchange!NothingToUndo, Exchange!NotExecuted, Backed
  <2>3. Sided'
    BY <1>21, <2>1 DEF Exchange!NothingToUndo, Exchange!NotExecuted, Sided
  <2>4. Published'
    BY <1>21, <2>1 DEF Exchange!NothingToUndo, Exchange!NotExecuted, Published
  <2>5. PutBack'
    BY <1>21, <2>1 DEF Exchange!NothingToUndo, Exchange!NotExecuted, PutBack
  <2>6. touches' = 0 => OnWay'
    BY <1>21, <2>1 DEF Exchange!NothingToUndo, Exchange!NotExecuted, OnWay, Sided
  <2>7. touches' = 0 => Forth'
    BY <1>21, <2>1 DEF Exchange!NothingToUndo, Exchange!NotExecuted, Forth
  <2>8. touches' = 0 => Aback'
    BY <1>21, <2>1 DEF Exchange!NothingToUndo, Exchange!NotExecuted, Aback
  <2> QED BY <2>1, <2>2, <2>3, <2>4, <2>5, <2>6, <2>7, <2>8, Zenon DEF ExchangeInv
<1>22. CASE Exchange!RecordUndoIntent
  <2>1. ExchangeTypes'
    BY <1>22 DEF Exchange!RecordUndoIntent, Exchange!Executed
  <2>2. Backed'
    BY <1>22, <2>1 DEF Exchange!RecordUndoIntent, Exchange!Executed, Backed
  <2>3. Sided'
    BY <1>22, <2>1 DEF Exchange!RecordUndoIntent, Exchange!Executed, Sided
  <2>4. Published'
    BY <1>22, <2>1 DEF Exchange!RecordUndoIntent, Exchange!Executed, Published
  <2>5. PutBack'
    BY <1>22, <2>1 DEF Exchange!RecordUndoIntent, Exchange!Executed, PutBack
  <2>6. touches' = 0 => OnWay'
    BY <1>22, <2>1 DEF Exchange!RecordUndoIntent, Exchange!Executed, OnWay, Sided
  <2>7. touches' = 0 => Forth'
    BY <1>22, <2>1 DEF Exchange!RecordUndoIntent, Exchange!Executed, Forth
  <2>8. touches' = 0 => Aback'
    BY <1>22, <2>1 DEF Exchange!RecordUndoIntent, Exchange!Executed, Aback, Sided, Published,
       Forth, OnWay
  <2> QED BY <2>1, <2>2, <2>3, <2>4, <2>5, <2>6, <2>7, <2>8, Zenon DEF ExchangeInv
<1>23. CASE Exchange!Conflict
  <2>1. ExchangeTypes'
    BY <1>23 DEF Exchange!Conflict, Exchange!NotExecuted, Exchange!Executed
  <2>2. Backed'
    BY <1>23, <2>1 DEF Exchange!Conflict, Exchange!NotExecuted, Exchange!Executed, Backed
  <2>3. Sided'
    BY <1>23, <2>1 DEF Exchange!Conflict, Exchange!NotExecuted, Exchange!Executed, Sided
  <2>4. Published'
    BY <1>23, <2>1 DEF Exchange!Conflict, Exchange!NotExecuted, Exchange!Executed, Published
  <2>5. PutBack'
    BY <1>23, <2>1 DEF Exchange!Conflict, Exchange!NotExecuted, Exchange!Executed, PutBack
  <2>6. touches' = 0 => OnWay'
    BY <1>23, <2>1 DEF Exchange!Conflict, Exchange!NotExecuted, Exchange!Executed, OnWay, Backed,
       Sided, Published, PutBack, Forth, Aback
  <2>7. touches' = 0 => Forth'
    BY <1>23, <2>1 DEF Exchange!Conflict, Exchange!NotExecuted, Exchange!Executed, Forth
  <2>8. touches' = 0 => Aback'
    BY <1>23, <2>1 DEF Exchange!Conflict, Exchange!NotExecuted, Exchange!Executed, Aback
  <2> QED BY <2>1, <2>2, <2>3, <2>4, <2>5, <2>6, <2>7, <2>8, Zenon DEF ExchangeInv
<1>24. CASE Exchange!BeginRestore
  <2>1. ExchangeTypes'
    BY <1>24 DEF Exchange!BeginRestore, Exchange!Restorable, Exchange!Executed
  <2>2. Backed'
    BY <1>24, <2>1 DEF Exchange!BeginRestore, Exchange!Restorable, Exchange!Executed, Backed
  <2>3. Sided'
    BY <1>24, <2>1 DEF Exchange!BeginRestore, Exchange!Restorable, Exchange!Executed, Sided
  <2>4. Published'
    BY <1>24, <2>1 DEF Exchange!BeginRestore, Exchange!Restorable, Exchange!Executed, Published
  <2>5. PutBack'
    BY <1>24, <2>1 DEF Exchange!BeginRestore, Exchange!Restorable, Exchange!Executed, PutBack
  <2>6. touches' = 0 => OnWay'
    BY <1>24, <2>1 DEF Exchange!BeginRestore, Exchange!Restorable, Exchange!Executed, OnWay,
       Backed, Sided, Published, PutBack, Forth, Aback
  <2>7. touches' = 0 => Forth'
    BY <1>24, <2>1 DEF Exchange!BeginRestore, Exchange!Restorable, Exchange!Executed, Forth
  <2>8. touches' = 0 => Aback'
    BY <1>24, <2>1 DEF Exchange!BeginRestore, Exchange!Restorable, Exchange!Executed, Aback
  <2> QED BY <2>1, <2>2, <2>3, <2>4, <2>5, <2>6, <2>7, <2>8, Zenon DEF ExchangeInv
<1>25. CASE Exchange!OpenDirectory
  <2>0. /\ place = "directory" /\ place' = Exchange!Places[reverse.phase] /\ phase = "rollback"
        /\ UNCHANGED <<env, beside, saved, forward, reverse, op, phase, seen, breaks, touches>>
        /\ private' = [private EXCEPT !.made = TRUE]
    BY <1>25 DEF Exchange!OpenDirectory, Sided
  <2>a. \/ reverse.phase = "preparing" /\ place' = "source"
        \/ reverse.phase = "exchange_pending" /\ place' = "pair"
        \/ reverse.phase = "applied" /\ place' = "applied"
        \/ reverse.phase = "absence_pending" /\ place' = "move"
        \/ reverse.phase = "removed" /\ place' = "removed"
    BY <2>0 DEF Exchange!Places, PutBack
  <2>b. /\ private'.candidate = private.candidate /\ private'.removed = private.removed
        /\ private' \in [made : BOOLEAN, candidate : [id : Ids, content : Contents],
                         removed : [id : Ids, content : Contents]]
    BY <2>0
  <2>1. ExchangeTypes'
    BY <2>0, <2>a, <2>b
  <2>2. Backed'
    BY <2>0, <2>a DEF Backed
  <2>3. Sided'
    BY <2>0, <2>a DEF Sided
  <2>4. Published'
    BY <2>0, <2>a DEF Published
  <2>5. PutBack'
    BY <2>0, <2>a, <2>b DEF PutBack
  <2>6. touches' = 0 => OnWay'
    BY <2>0, <2>a DEF OnWay
  <2>7. touches' = 0 => Forth'
    BY <2>0, <2>a DEF Forth
  <2>8. touches' = 0 => Aback'
    BY <2>0, <2>a, <2>b DEF Aback
  <2> QED BY <2>1, <2>2, <2>3, <2>4, <2>5, <2>6, <2>7, <2>8, Zenon DEF ExchangeInv
<1>26. CASE Exchange!VerifySource
  <2>1. ExchangeTypes'
    BY <1>26 DEF Exchange!VerifySource
  <2>2. Backed'
    BY <1>26, <2>1 DEF Exchange!VerifySource, Backed
  <2>3. Sided'
    BY <1>26, <2>1 DEF Exchange!VerifySource, Sided
  <2>4. Published'
    BY <1>26, <2>1 DEF Exchange!VerifySource, Published
  <2>5. PutBack'
    BY <1>26, <2>1 DEF Exchange!VerifySource, PutBack
  <2>6. touches' = 0 => OnWay'
    BY <1>26, <2>1 DEF Exchange!VerifySource, OnWay, Sided, PutBack, Aback
  <2>7. touches' = 0 => Forth'
    BY <1>26, <2>1 DEF Exchange!VerifySource, Forth
  <2>8. touches' = 0 => Aback'
    BY <1>26, <2>1 DEF Exchange!VerifySource, Aback, PutBack
  <2> QED BY <2>1, <2>2, <2>3, <2>4, <2>5, <2>6, <2>7, <2>8, Zenon DEF ExchangeInv
<1>27. CASE Exchange!MakePrivate
  <2>1. ExchangeTypes'
    BY <1>27 DEF Exchange!MakePrivate, Exchange!Replacement, Exchange!HalfMade, Exchange!Everywhere
  <2>2. Backed'
    BY <1>27, <2>1 DEF Exchange!MakePrivate, Exchange!Replacement, Exchange!HalfMade,
       Exchange!Everywhere, Backed
  <2>3. Sided'
    BY <1>27, <2>1 DEF Exchange!MakePrivate, Exchange!Replacement, Exchange!HalfMade,
       Exchange!Everywhere, Sided
  <2>4. Published'
    BY <1>27, <2>1 DEF Exchange!MakePrivate, Exchange!Replacement, Exchange!HalfMade,
       Exchange!Everywhere, Published
  <2>5. PutBack'
    BY <1>27, <2>1 DEF Exchange!MakePrivate, Exchange!Replacement, Exchange!HalfMade,
       Exchange!Everywhere, PutBack
  <2>6. touches' = 0 => OnWay'
    BY <1>27, <2>1 DEF Exchange!MakePrivate, Exchange!Replacement, Exchange!HalfMade,
       Exchange!Everywhere, OnWay, Sided
  <2>7. touches' = 0 => Forth'
    BY <1>27, <2>1 DEF Exchange!MakePrivate, Exchange!Replacement, Exchange!HalfMade,
       Exchange!Everywhere, Forth
  <2>8. touches' = 0 => Aback'
    BY <1>27, <2>1 DEF Exchange!MakePrivate, Exchange!Replacement, Exchange!HalfMade,
       Exchange!Everywhere, Aback, PutBack
  <2> QED BY <2>1, <2>2, <2>3, <2>4, <2>5, <2>6, <2>7, <2>8, Zenon DEF ExchangeInv
<1>28. CASE Exchange!WritePrivate
  <2>1. ExchangeTypes'
    BY <1>28 DEF Exchange!WritePrivate, Exchange!Replacement, Backed, Sided, PutBack
  <2>2. Backed'
    BY <1>28, <2>1 DEF Exchange!WritePrivate, Exchange!Replacement, Backed
  <2>3. Sided'
    BY <1>28, <2>1 DEF Exchange!WritePrivate, Exchange!Replacement, Sided
  <2>4. Published'
    BY <1>28, <2>1 DEF Exchange!WritePrivate, Exchange!Replacement, Published
  <2>5. PutBack'
    BY <1>28, <2>1 DEF Exchange!WritePrivate, Exchange!Replacement, PutBack
  <2>6. touches' = 0 => OnWay'
    BY <1>28, <2>1 DEF Exchange!WritePrivate, Exchange!Replacement, OnWay, Sided
  <2>7. touches' = 0 => Forth'
    BY <1>28, <2>1 DEF Exchange!WritePrivate, Exchange!Replacement, Forth
  <2>8. touches' = 0 => Aback'
    BY <1>28, <2>1 DEF Exchange!WritePrivate, Exchange!Replacement, Aback, PutBack
  <2> QED BY <2>1, <2>2, <2>3, <2>4, <2>5, <2>6, <2>7, <2>8, Zenon DEF ExchangeInv
<1>29. CASE Exchange!ExchangePending
  <2>1. ExchangeTypes'
    BY <1>29 DEF Exchange!ExchangePending, Exchange!WriteReverse, Exchange!Replacement, PutBack
  <2>2. Backed'
    BY <1>29, <2>1 DEF Exchange!ExchangePending, Exchange!WriteReverse, Exchange!Replacement, Backed
  <2>3. Sided'
    BY <1>29, <2>1 DEF Exchange!ExchangePending, Exchange!WriteReverse, Exchange!Replacement,
       Sided, PutBack
  <2>4. Published'
    BY <1>29, <2>1 DEF Exchange!ExchangePending, Exchange!WriteReverse, Exchange!Replacement,
       Published
  <2>5. PutBack'
    BY <1>29, <2>1 DEF Exchange!ExchangePending, Exchange!WriteReverse, Exchange!Replacement,
       PutBack
  <2>6. touches' = 0 => OnWay'
    BY <1>29, <2>1 DEF Exchange!ExchangePending, Exchange!WriteReverse, Exchange!Replacement,
       OnWay, Sided
  <2>7. touches' = 0 => Forth'
    BY <1>29, <2>1 DEF Exchange!ExchangePending, Exchange!WriteReverse, Exchange!Replacement, Forth
  <2>8. touches' = 0 => Aback'
    BY <1>29, <2>1 DEF Exchange!ExchangePending, Exchange!WriteReverse, Exchange!Replacement,
       Aback, Backed, Sided, Published, PutBack, OnWay, Forth
  <2> QED BY <2>1, <2>2, <2>3, <2>4, <2>5, <2>6, <2>7, <2>8, Zenon DEF ExchangeInv
<1>30. CASE Exchange!VerifyPair
  <2>1. ExchangeTypes'
    BY <1>30 DEF Exchange!VerifyPair, Exchange!ReplacementHere, Exchange!SourceHere,
       Exchange!Replacement
  <2>2. Backed'
    BY <1>30, <2>1 DEF Exchange!VerifyPair, Exchange!ReplacementHere, Exchange!SourceHere,
       Exchange!Replacement, Backed
  <2>3. Sided'
    BY <1>30, <2>1 DEF Exchange!VerifyPair, Exchange!ReplacementHere, Exchange!SourceHere,
       Exchange!Replacement, Sided
  <2>4. Published'
    BY <1>30, <2>1 DEF Exchange!VerifyPair, Exchange!ReplacementHere, Exchange!SourceHere,
       Exchange!Replacement, Published
  <2>5. PutBack'
    BY <1>30, <2>1 DEF Exchange!VerifyPair, Exchange!ReplacementHere, Exchange!SourceHere,
       Exchange!Replacement, PutBack
  <2>6. touches' = 0 => OnWay'
    BY <1>30, <2>1 DEF Exchange!VerifyPair, Exchange!ReplacementHere, Exchange!SourceHere,
       Exchange!Replacement, OnWay, Backed, Sided, Published, PutBack, Forth, Aback
  <2>7. touches' = 0 => Forth'
    BY <1>30, <2>1 DEF Exchange!VerifyPair, Exchange!ReplacementHere, Exchange!SourceHere,
       Exchange!Replacement, Forth
  <2>8. touches' = 0 => Aback'
    BY <1>30, <2>1 DEF Exchange!VerifyPair, Exchange!ReplacementHere, Exchange!SourceHere,
       Exchange!Replacement, Aback
  <2> QED BY <2>1, <2>2, <2>3, <2>4, <2>5, <2>6, <2>7, <2>8, Zenon DEF ExchangeInv
<1>31. CASE Exchange!ExchangeBack
  <2>1. ExchangeTypes'
    BY <1>31 DEF Exchange!ExchangeBack
  <2>2. Backed'
    BY <1>31, <2>1 DEF Exchange!ExchangeBack, Backed
  <2>3. Sided'
    BY <1>31, <2>1 DEF Exchange!ExchangeBack, Sided
  <2>4. Published'
    BY <1>31, <2>1 DEF Exchange!ExchangeBack, Published
  <2>5. PutBack'
    BY <1>31, <2>1 DEF Exchange!ExchangeBack, PutBack
  <2>6. touches' = 0 => OnWay'
    BY <1>31, <2>1 DEF Exchange!ExchangeBack, OnWay, Sided, PutBack, Aback
  <2>7. touches' = 0 => Forth'
    BY <1>31, <2>1 DEF Exchange!ExchangeBack, Forth, Sided
  <2>8. touches' = 0 => Aback'
    BY <1>31, <2>1 DEF Exchange!ExchangeBack, Aback, PutBack
  <2> QED BY <2>1, <2>2, <2>3, <2>4, <2>5, <2>6, <2>7, <2>8, Zenon DEF ExchangeInv
<1>32. CASE Exchange!VerifyRelocated
  <2>1. ExchangeTypes'
    BY <1>32 DEF Exchange!VerifyRelocated, Exchange!WriteReverse, Exchange!ReplacementHere,
       Exchange!SourceHere, Exchange!Replacement
  <2>2. Backed'
    BY <1>32, <2>1 DEF Exchange!VerifyRelocated, Exchange!WriteReverse, Exchange!ReplacementHere,
       Exchange!SourceHere, Exchange!Replacement, Backed
  <2>3. Sided'
    BY <1>32, <2>1 DEF Exchange!VerifyRelocated, Exchange!WriteReverse, Exchange!ReplacementHere,
       Exchange!SourceHere, Exchange!Replacement, Sided, PutBack
  <2>4. Published'
    BY <1>32, <2>1 DEF Exchange!VerifyRelocated, Exchange!WriteReverse, Exchange!ReplacementHere,
       Exchange!SourceHere, Exchange!Replacement, Published
  <2>5. PutBack'
    BY <1>32, <2>1 DEF Exchange!VerifyRelocated, Exchange!WriteReverse, Exchange!ReplacementHere,
       Exchange!SourceHere, Exchange!Replacement, PutBack
  <2>6. touches' = 0 => OnWay'
    BY <1>32, <2>1 DEF Exchange!VerifyRelocated, Exchange!WriteReverse, Exchange!ReplacementHere,
       Exchange!SourceHere, Exchange!Replacement, OnWay, Backed, Sided, Published, PutBack, Forth,
       Aback
  <2>7. touches' = 0 => Forth'
    BY <1>32, <2>1 DEF Exchange!VerifyRelocated, Exchange!WriteReverse, Exchange!ReplacementHere,
       Exchange!SourceHere, Exchange!Replacement, Forth
  <2>8. touches' = 0 => Aback'
    BY <1>32, <2>1 DEF Exchange!VerifyRelocated, Exchange!WriteReverse, Exchange!ReplacementHere,
       Exchange!SourceHere, Exchange!Replacement, Aback, PutBack
  <2> QED BY <2>1, <2>2, <2>3, <2>4, <2>5, <2>6, <2>7, <2>8, Zenon DEF ExchangeInv
<1>33. CASE Exchange!SettleExisting
  <2>1. ExchangeTypes'
    BY <1>33 DEF Exchange!SettleExisting, Exchange!ReplacementHere, Exchange!Removable,
       Exchange!SourceHere, Exchange!Replacement
  <2>2. Backed'
    BY <1>33, <2>1 DEF Exchange!SettleExisting, Exchange!ReplacementHere, Exchange!Removable,
       Exchange!SourceHere, Exchange!Replacement, Backed
  <2>3. Sided'
    BY <1>33, <2>1 DEF Exchange!SettleExisting, Exchange!ReplacementHere, Exchange!Removable,
       Exchange!SourceHere, Exchange!Replacement, Sided
  <2>4. Published'
    BY <1>33, <2>1 DEF Exchange!SettleExisting, Exchange!ReplacementHere, Exchange!Removable,
       Exchange!SourceHere, Exchange!Replacement, Published
  <2>5. PutBack'
    BY <1>33, <2>1 DEF Exchange!SettleExisting, Exchange!ReplacementHere, Exchange!Removable,
       Exchange!SourceHere, Exchange!Replacement, PutBack
  <2>6. touches' = 0 => OnWay'
    BY <1>33, <2>1 DEF Exchange!SettleExisting, Exchange!ReplacementHere, Exchange!Removable,
       Exchange!SourceHere, Exchange!Replacement, OnWay, Backed, Sided, Published, PutBack, Forth,
       Aback
  <2>7. touches' = 0 => Forth'
    BY <1>33, <2>1 DEF Exchange!SettleExisting, Exchange!ReplacementHere, Exchange!Removable,
       Exchange!SourceHere, Exchange!Replacement, Forth
  <2>8. touches' = 0 => Aback'
    BY <1>33, <2>1 DEF Exchange!SettleExisting, Exchange!ReplacementHere, Exchange!Removable,
       Exchange!SourceHere, Exchange!Replacement, Aback, PutBack
  <2> QED BY <2>1, <2>2, <2>3, <2>4, <2>5, <2>6, <2>7, <2>8, Zenon DEF ExchangeInv
<1>34. CASE Exchange!SettleAbsent
  <2>1. ExchangeTypes'
    BY <1>34 DEF Exchange!SettleAbsent, Exchange!WriteReverse, Exchange!ReplacementHere,
       Exchange!SourceHere, Exchange!Replacement
  <2>2. Backed'
    BY <1>34, <2>1 DEF Exchange!SettleAbsent, Exchange!WriteReverse, Exchange!ReplacementHere,
       Exchange!SourceHere, Exchange!Replacement, Backed
  <2>3. Sided'
    BY <1>34, <2>1 DEF Exchange!SettleAbsent, Exchange!WriteReverse, Exchange!ReplacementHere,
       Exchange!SourceHere, Exchange!Replacement, Sided, PutBack
  <2>4. Published'
    BY <1>34, <2>1 DEF Exchange!SettleAbsent, Exchange!WriteReverse, Exchange!ReplacementHere,
       Exchange!SourceHere, Exchange!Replacement, Published
  <2>5. PutBack'
    BY <1>34, <2>1 DEF Exchange!SettleAbsent, Exchange!WriteReverse, Exchange!ReplacementHere,
       Exchange!SourceHere, Exchange!Replacement, PutBack
  <2>6. touches' = 0 => OnWay'
    BY <1>34, <2>1 DEF Exchange!SettleAbsent, Exchange!WriteReverse, Exchange!ReplacementHere,
       Exchange!SourceHere, Exchange!Replacement, OnWay, Sided, PutBack, Aback
  <2>7. touches' = 0 => Forth'
    BY <1>34, <2>1 DEF Exchange!SettleAbsent, Exchange!WriteReverse, Exchange!ReplacementHere,
       Exchange!SourceHere, Exchange!Replacement, Forth
  <2>8. touches' = 0 => Aback'
    BY <1>34, <2>1 DEF Exchange!SettleAbsent, Exchange!WriteReverse, Exchange!ReplacementHere,
       Exchange!SourceHere, Exchange!Replacement, Aback, PutBack
  <2> QED BY <2>1, <2>2, <2>3, <2>4, <2>5, <2>6, <2>7, <2>8, Zenon DEF ExchangeInv
<1>35. CASE Exchange!VerifyMove
  <2>1. ExchangeTypes'
    BY <1>35 DEF Exchange!VerifyMove, Exchange!ReplacementHere, Exchange!SourceHere,
       Exchange!Replacement, Exchange!PutBackRemoved
  <2>2. Backed'
    BY <1>35, <2>1 DEF Exchange!VerifyMove, Exchange!ReplacementHere, Exchange!SourceHere,
       Exchange!Replacement, Exchange!PutBackRemoved, Backed
  <2>3. Sided'
    BY <1>35, <2>1 DEF Exchange!VerifyMove, Exchange!ReplacementHere, Exchange!SourceHere,
       Exchange!Replacement, Exchange!PutBackRemoved, Sided
  <2>4. Published'
    BY <1>35, <2>1 DEF Exchange!VerifyMove, Exchange!ReplacementHere, Exchange!SourceHere,
       Exchange!Replacement, Exchange!PutBackRemoved, Published
  <2>5. PutBack'
    BY <1>35, <2>1 DEF Exchange!VerifyMove, Exchange!ReplacementHere, Exchange!SourceHere,
       Exchange!Replacement, Exchange!PutBackRemoved, PutBack
  <2>6. touches' = 0 => OnWay'
    BY <1>35, <2>1 DEF Exchange!VerifyMove, Exchange!ReplacementHere, Exchange!SourceHere,
       Exchange!Replacement, Exchange!PutBackRemoved, OnWay, Sided, PutBack, Aback
  <2>7. touches' = 0 => Forth'
    BY <1>35, <2>1 DEF Exchange!VerifyMove, Exchange!ReplacementHere, Exchange!SourceHere,
       Exchange!Replacement, Exchange!PutBackRemoved, Forth, Sided
  <2>8. touches' = 0 => Aback'
    BY <1>35, <2>1 DEF Exchange!VerifyMove, Exchange!ReplacementHere, Exchange!SourceHere,
       Exchange!Replacement, Exchange!PutBackRemoved, Aback, PutBack
  <2> QED BY <2>1, <2>2, <2>3, <2>4, <2>5, <2>6, <2>7, <2>8, Zenon DEF ExchangeInv
<1>36. CASE Exchange!MoveAway
  <2>1. ExchangeTypes'
    BY <1>36 DEF Exchange!MoveAway
  <2>2. Backed'
    BY <1>36, <2>1 DEF Exchange!MoveAway, Backed
  <2>3. Sided'
    BY <1>36, <2>1 DEF Exchange!MoveAway, Sided
  <2>4. Published'
    BY <1>36, <2>1 DEF Exchange!MoveAway, Published
  <2>5. PutBack'
    BY <1>36, <2>1 DEF Exchange!MoveAway, PutBack
  <2>6. touches' = 0 => OnWay'
    BY <1>36, <2>1 DEF Exchange!MoveAway, OnWay, Sided, PutBack, Aback
  <2>7. touches' = 0 => Forth'
    BY <1>36, <2>1 DEF Exchange!MoveAway, Forth, Sided
  <2>8. touches' = 0 => Aback'
    BY <1>36, <2>1 DEF Exchange!MoveAway, Aback, PutBack
  <2> QED BY <2>1, <2>2, <2>3, <2>4, <2>5, <2>6, <2>7, <2>8, Zenon DEF ExchangeInv
<1>37. CASE Exchange!VerifyGone
  <2>1. ExchangeTypes'
    BY <1>37 DEF Exchange!VerifyGone, Exchange!WriteReverse, Exchange!ReplacementHere,
       Exchange!Replacement, Exchange!PutBackRemoved
  <2>2. Backed'
    BY <1>37, <2>1 DEF Exchange!VerifyGone, Exchange!WriteReverse, Exchange!ReplacementHere,
       Exchange!Replacement, Exchange!PutBackRemoved, Backed
  <2>3. Sided'
    BY <1>37, <2>1 DEF Exchange!VerifyGone, Exchange!WriteReverse, Exchange!ReplacementHere,
       Exchange!Replacement, Exchange!PutBackRemoved, Sided, PutBack
  <2>4. Published'
    BY <1>37, <2>1 DEF Exchange!VerifyGone, Exchange!WriteReverse, Exchange!ReplacementHere,
       Exchange!Replacement, Exchange!PutBackRemoved, Published
  <2>5. PutBack'
    BY <1>37, <2>1 DEF Exchange!VerifyGone, Exchange!WriteReverse, Exchange!ReplacementHere,
       Exchange!Replacement, Exchange!PutBackRemoved, PutBack
  <2>6. touches' = 0 => OnWay'
    BY <1>37, <2>1 DEF Exchange!VerifyGone, Exchange!WriteReverse, Exchange!ReplacementHere,
       Exchange!Replacement, Exchange!PutBackRemoved, OnWay, Sided, PutBack, Aback
  <2>7. touches' = 0 => Forth'
    BY <1>37, <2>1 DEF Exchange!VerifyGone, Exchange!WriteReverse, Exchange!ReplacementHere,
       Exchange!Replacement, Exchange!PutBackRemoved, Forth, Sided
  <2>8. touches' = 0 => Aback'
    BY <1>37, <2>1 DEF Exchange!VerifyGone, Exchange!WriteReverse, Exchange!ReplacementHere,
       Exchange!Replacement, Exchange!PutBackRemoved, Aback, PutBack
  <2> QED BY <2>1, <2>2, <2>3, <2>4, <2>5, <2>6, <2>7, <2>8, Zenon DEF ExchangeInv
<1>38. CASE Exchange!RemoveSource
  <2>1. ExchangeTypes'
    BY <1>38 DEF Exchange!RemoveSource, Exchange!Removable, Exchange!SourceHere
  <2>2. Backed'
    BY <1>38, <2>1 DEF Exchange!RemoveSource, Exchange!Removable, Exchange!SourceHere, Backed
  <2>3. Sided'
    BY <1>38, <2>1 DEF Exchange!RemoveSource, Exchange!Removable, Exchange!SourceHere, Sided
  <2>4. Published'
    BY <1>38, <2>1 DEF Exchange!RemoveSource, Exchange!Removable, Exchange!SourceHere, Published
  <2>5. PutBack'
    BY <1>38, <2>1 DEF Exchange!RemoveSource, Exchange!Removable, Exchange!SourceHere, PutBack
  <2>6. touches' = 0 => OnWay'
    BY <1>38, <2>1 DEF Exchange!RemoveSource, Exchange!Removable, Exchange!SourceHere, OnWay,
       Sided, PutBack, Aback
  <2>7. touches' = 0 => Forth'
    BY <1>38, <2>1 DEF Exchange!RemoveSource, Exchange!Removable, Exchange!SourceHere, Forth
  <2>8. touches' = 0 => Aback'
    BY <1>38, <2>1 DEF Exchange!RemoveSource, Exchange!Removable, Exchange!SourceHere, Aback,
       PutBack
  <2> QED BY <2>1, <2>2, <2>3, <2>4, <2>5, <2>6, <2>7, <2>8, Zenon DEF ExchangeInv
<1>39. CASE Exchange!RemovePlaceholder
  <2>1. ExchangeTypes'
    BY <1>39 DEF Exchange!RemovePlaceholder
  <2>2. Backed'
    BY <1>39, <2>1 DEF Exchange!RemovePlaceholder, Backed
  <2>3. Sided'
    BY <1>39, <2>1 DEF Exchange!RemovePlaceholder, Sided
  <2>4. Published'
    BY <1>39, <2>1 DEF Exchange!RemovePlaceholder, Published
  <2>5. PutBack'
    BY <1>39, <2>1 DEF Exchange!RemovePlaceholder, PutBack
  <2>6. touches' = 0 => OnWay'
    BY <1>39, <2>1 DEF Exchange!RemovePlaceholder, OnWay, Sided
  <2>7. touches' = 0 => Forth'
    BY <1>39, <2>1 DEF Exchange!RemovePlaceholder, Forth
  <2>8. touches' = 0 => Aback'
    BY <1>39, <2>1 DEF Exchange!RemovePlaceholder, Aback, PutBack
  <2> QED BY <2>1, <2>2, <2>3, <2>4, <2>5, <2>6, <2>7, <2>8, Zenon DEF ExchangeInv
<1>40. CASE Exchange!RemoveDirectory
  <2>1. ExchangeTypes'
    BY <1>40 DEF Exchange!RemoveDirectory
  <2>2. Backed'
    BY <1>40, <2>1 DEF Exchange!RemoveDirectory, Backed
  <2>3. Sided'
    BY <1>40, <2>1 DEF Exchange!RemoveDirectory, Sided
  <2>4. Published'
    BY <1>40, <2>1 DEF Exchange!RemoveDirectory, Published
  <2>5. PutBack'
    BY <1>40, <2>1 DEF Exchange!RemoveDirectory, PutBack
  <2>6. touches' = 0 => OnWay'
    BY <1>40, <2>1 DEF Exchange!RemoveDirectory, OnWay, Sided
  <2>7. touches' = 0 => Forth'
    BY <1>40, <2>1 DEF Exchange!RemoveDirectory, Forth
  <2>8. touches' = 0 => Aback'
    BY <1>40, <2>1 DEF Exchange!RemoveDirectory, Aback, PutBack
  <2> QED BY <2>1, <2>2, <2>3, <2>4, <2>5, <2>6, <2>7, <2>8, Zenon DEF ExchangeInv
<1>41. CASE Exchange!ClearReverse
  <2>1. ExchangeTypes'
    BY <1>41 DEF Exchange!ClearReverse
  <2>2. Backed'
    BY <1>41, <2>1 DEF Exchange!ClearReverse, Backed
  <2>3. Sided'
    BY <1>41, <2>1 DEF Exchange!ClearReverse, Sided
  <2>4. Published'
    BY <1>41, <2>1 DEF Exchange!ClearReverse, Published
  <2>5. PutBack'
    BY <1>41, <2>1 DEF Exchange!ClearReverse, PutBack
  <2>6. touches' = 0 => OnWay'
    BY <1>41, <2>1 DEF Exchange!ClearReverse, OnWay, Sided, PutBack, Aback
  <2>7. touches' = 0 => Forth'
    BY <1>41, <2>1 DEF Exchange!ClearReverse, Forth
  <2>8. touches' = 0 => Aback'
    BY <1>41, <2>1 DEF Exchange!ClearReverse, Aback, PutBack
  <2> QED BY <2>1, <2>2, <2>3, <2>4, <2>5, <2>6, <2>7, <2>8, Zenon DEF ExchangeInv
<1>42. CASE Exchange!RecordUndone
  <2>1. ExchangeTypes'
    BY <1>42 DEF Exchange!RecordUndone, Exchange!NotExecuted
  <2>2. Backed'
    BY <1>42, <2>1 DEF Exchange!RecordUndone, Exchange!NotExecuted, Backed
  <2>3. Sided'
    BY <1>42, <2>1 DEF Exchange!RecordUndone, Exchange!NotExecuted, Sided, PutBack
  <2>4. Published'
    BY <1>42, <2>1 DEF Exchange!RecordUndone, Exchange!NotExecuted, Published
  <2>5. PutBack'
    BY <1>42, <2>1 DEF Exchange!RecordUndone, Exchange!NotExecuted, PutBack
  <2>6. touches' = 0 => OnWay'
    BY <1>42, <2>1 DEF Exchange!RecordUndone, Exchange!NotExecuted, OnWay, Backed, Sided,
       Published, PutBack, Forth, Aback
  <2>7. touches' = 0 => Forth'
    BY <1>42, <2>1 DEF Exchange!RecordUndone, Exchange!NotExecuted, Forth
  <2>8. touches' = 0 => Aback'
    BY <1>42, <2>1 DEF Exchange!RecordUndone, Exchange!NotExecuted, Aback
  <2> QED BY <2>1, <2>2, <2>3, <2>4, <2>5, <2>6, <2>7, <2>8, Zenon DEF ExchangeInv
<1>43. CASE Exchange!Complete
  <2>1. ExchangeTypes'
    BY <1>43 DEF Exchange!Complete
  <2>2. Backed'
    BY <1>43, <2>1 DEF Exchange!Complete, Backed
  <2>3. Sided'
    BY <1>43, <2>1 DEF Exchange!Complete, Sided
  <2>4. Published'
    BY <1>43, <2>1 DEF Exchange!Complete, Published
  <2>5. PutBack'
    BY <1>43, <2>1 DEF Exchange!Complete, PutBack
  <2>6. touches' = 0 => OnWay'
    BY <1>43, <2>1 DEF Exchange!Complete, OnWay, Sided
  <2>7. touches' = 0 => Forth'
    BY <1>43, <2>1 DEF Exchange!Complete, Forth
  <2>8. touches' = 0 => Aback'
    BY <1>43, <2>1 DEF Exchange!Complete, Aback
  <2> QED BY <2>1, <2>2, <2>3, <2>4, <2>5, <2>6, <2>7, <2>8, Zenon DEF ExchangeInv
<1>44. CASE Exchange!Kill
  <2>1. ExchangeTypes'
    BY <1>44 DEF Exchange!Kill
  <2>2. Backed'
    BY <1>44, <2>1 DEF Exchange!Kill, Backed
  <2>3. Sided'
    BY <1>44, <2>1 DEF Exchange!Kill, Sided
  <2>4. Published'
    BY <1>44, <2>1 DEF Exchange!Kill, Published
  <2>5. PutBack'
    BY <1>44, <2>1 DEF Exchange!Kill, PutBack
  <2>6. touches' = 0 => OnWay'
    BY <1>44, <2>1 DEF Exchange!Kill, OnWay, Sided
  <2>7. touches' = 0 => Forth'
    BY <1>44, <2>1 DEF Exchange!Kill, Forth
  <2>8. touches' = 0 => Aback'
    BY <1>44, <2>1 DEF Exchange!Kill, Aback
  <2> QED BY <2>1, <2>2, <2>3, <2>4, <2>5, <2>6, <2>7, <2>8, Zenon DEF ExchangeInv
<1>45. CASE Exchange!Edit
  <2>1. ExchangeTypes'
    BY <1>45 DEF Exchange!Edit
  <2>2. Backed'
    BY <1>45, <2>1 DEF Exchange!Edit, Backed
  <2>3. Sided'
    BY <1>45, <2>1 DEF Exchange!Edit, Sided
  <2>4. Published'
    BY <1>45, <2>1 DEF Exchange!Edit, Published
  <2>5. PutBack'
    BY <1>45, <2>1 DEF Exchange!Edit, PutBack
  <2>6. touches' = 0 => OnWay'
    BY <1>45, <2>1 DEF Exchange!Edit, OnWay
  <2>7. touches' = 0 => Forth'
    BY <1>45, <2>1 DEF Exchange!Edit, Forth
  <2>8. touches' = 0 => Aback'
    BY <1>45, <2>1 DEF Exchange!Edit, Aback
  <2> QED BY <2>1, <2>2, <2>3, <2>4, <2>5, <2>6, <2>7, <2>8, Zenon DEF ExchangeInv
<1> QED BY <1>1, <1>2, <1>3, <1>4, <1>5, <1>6, <1>7, <1>8, <1>9, <1>10, <1>11, <1>12, <1>13,
        <1>14, <1>15, <1>16, <1>17, <1>18, <1>19, <1>20, <1>21, <1>22, <1>23, <1>24, <1>25, <1>26,
                 <1>27, <1>28, <1>29, <1>30, <1>31, <1>32, <1>33, <1>34, <1>35, <1>36, <1>37,
                          <1>38, <1>39, <1>40, <1>41, <1>42, <1>43, <1>44, <1>45,
                                   Zenon DEF Exchange!Next, Exchange!Forward, Exchange!Backward

\* Nothing is saved, recorded or published at first.
LEMMA ExchangeInit == Exchange!Init => ExchangeInv
<1> SUFFICES ASSUME Exchange!Init PROVE ExchangeInv
  OBVIOUS
<1> USE DEF Exchange!File, Exchange!Missing, Exchange!NoWal, Exchange!NoDirectory, Ids, Contents,
        Saving, Publishing, Restoring, Owners
<1>1. ExchangeTypes
  BY DEF Exchange!Init, ExchangeTypes, Sane
<1>2. Backed /\ Sided
  BY DEF Exchange!Init, Backed, Sided
<1>3. Published /\ PutBack
  BY DEF Exchange!Init, Published, PutBack
<1>4. OnWay /\ Forth /\ Aback
  BY DEF Exchange!Init, OnWay, Forth, Aback
<1> QED BY <1>1, <1>2, <1>3, <1>4 DEF ExchangeInv

LEMMA ExchangeStays == ExchangeInv /\ UNCHANGED Exchange!vars => ExchangeInv'
<1> SUFFICES ASSUME ExchangeInv, UNCHANGED Exchange!vars PROVE ExchangeInv'
  OBVIOUS
<1>1. UNCHANGED <<env, beside, private, saved, forward, reverse, op, phase, place, seen, breaks,
          touches>>
  BY DEF Exchange!vars, Exchange!files, Exchange!journal, Exchange!process, Exchange!spent
<1>2. ExchangeTypes' /\ Backed' /\ Sided' /\ Published' /\ PutBack'
  BY <1>1 DEF ExchangeInv, ExchangeTypes, Backed, Sided, Published, PutBack
<1>3. touches' = 0 => OnWay' /\ Forth' /\ Aback'
  BY <1>1 DEF ExchangeInv, OnWay, Exchange!HalfMade, Exchange!Everywhere, Forth, Aback, Old, New,
     Put, Back
<1> QED BY <1>2, <1>3 DEF ExchangeInv

\* EnvironmentWhole is what the invariant says of the outcomes and the records.
LEMMA ExchangeLeftWhole == ExchangeInv => Exchange!EnvironmentWhole
<1> SUFFICES ASSUME ExchangeInv PROVE Exchange!EnvironmentWhole
  OBVIOUS
<1> USE DEF Exchange!File, Exchange!Missing, Exchange!Before, Exchange!BeforeAbsent, Ids,
        Contents, Owners
<1>0. ExchangeTypes /\ Backed /\ Sided /\ Published /\ PutBack /\ (touches = 0 => OnWay)
  BY DEF ExchangeInv
<1>1. phase \in {"undone", "committed"} => Exchange!NothingLeft
  BY <1>0 DEF Sided, Published, PutBack, Exchange!NothingLeft
<1>2. phase = "undone" /\ touches = 0 =>
        env.id # "second" /\ (op.status # "none" => env.content = Exchange!Before)
  <2> SUFFICES ASSUME phase = "undone", touches = 0
               PROVE  env.id # "second" /\ (op.status # "none" => env.content = Exchange!Before)
    OBVIOUS
  <2>1. CASE op.status = "none"
    BY <1>0, <2>1 DEF OnWay
  <2>2. CASE op.status # "none"
    <3>1. env \in {Old, Back}
      BY <1>0, <2>2 DEF OnWay, Sided
    <3> QED BY <1>0, <3>1 DEF Old, Back, Put, Backed
  <2> QED BY <2>1, <2>2
<1>3. phase = "failed" /\ touches = 0 => breaks > 0 /\ Exchange!HalfMade
  BY <1>0 DEF OnWay
<1>4. Exchange!ForwardReadable
  BY <1>0 DEF Exchange!ForwardReadable, Published, ExchangeTypes
<1>5. Exchange!ReverseReadable
  BY <1>0 DEF Exchange!ReverseReadable, PutBack, ExchangeTypes
<1> QED BY <1>1, <1>2, <1>3, <1>4, <1>5 DEF Exchange!EnvironmentWhole

\* A file is only unlinked when it is the one the transaction made, or holds what
\* the backup or the plan holds.
LEMMA ExchangeKeepsEdits ==
  ExchangeInv /\ Exchange!Next /\ touches' = touches =>
    \A f \in Exchange!Everywhere : f.content = "edited" =>
        f \in {env', beside', private'.candidate, private'.removed}
<1> SUFFICES ASSUME ExchangeInv, Exchange!Next, touches' = touches
             PROVE  \A f \in Exchange!Everywhere : f.content = "edited" =>
                        f \in {env', beside', private'.candidate, private'.removed}
  OBVIOUS
<1> DEFINE Kept(f) == f.content = "edited" =>
                        f \in {env', beside', private'.candidate, private'.removed}
<1> SUFFICES Kept(env) /\ Kept(beside) /\ Kept(private.candidate) /\ Kept(private.removed)
  BY Zenon DEF Exchange!Everywhere
<1> USE DEF Exchange!At, Exchange!Go, Exchange!GiveUp, Exchange!Fail, Exchange!Is, Exchange!File,
        Exchange!Missing, Exchange!NoWal, Exchange!Wal, Exchange!NoDirectory, Exchange!Before,
        Exchange!BeforeAbsent,
        Exchange!files, Exchange!journal, Exchange!process, Exchange!spent, Ids, Contents, Sane,
        Saving, Publishing, Restoring
<1>0. ExchangeTypes /\ Backed /\ Sided /\ Published /\ PutBack
  BY DEF ExchangeInv
<1>a. UNCHANGED Exchange!files => Kept(env) /\ Kept(beside) /\ Kept(private.candidate) /\
          Kept(private.removed)
  OBVIOUS
<1>1. CASE Exchange!CreateCandidate
  BY <1>0, <1>1 DEF Exchange!CreateCandidate, ExchangeTypes, Published
<1>2. CASE Exchange!FillCandidate
  BY <1>0, <1>2 DEF Exchange!FillCandidate, ExchangeTypes, Published
<1>3. CASE Exchange!Publish
  BY <1>0, <1>3 DEF Exchange!Publish, ExchangeTypes
<1>4. CASE Exchange!UnlinkOld
  BY <1>0, <1>4 DEF Exchange!UnlinkOld, ExchangeTypes, Exchange!OldContentOnly, Backed
<1>5. CASE Exchange!ResumeForward
  <2>1. /\ UNCHANGED <<env, private>>
        /\ beside' = beside \/ (forward.phase # "none" /\ Exchange!ForwardSafe)
    BY <1>0, <1>5 DEF Exchange!ResumeForward, Published
  <2>2. ASSUME forward.phase # "none", Exchange!ForwardSafe PROVE beside.content # "edited"
    <3>0. Exchange!Before # "edited"
      BY <1>0 DEF ExchangeTypes
    <3>1. CASE forward.phase = "preparing"
      <4>1. beside = Exchange!Missing \/ beside.content = "after"
        BY ONLY <2>2, <3>1, Zenon DEF Exchange!ForwardSafe
      <4> QED BY <4>1
    <3>2. CASE forward.phase = "candidate_ready"
      <4>1. Exchange!PreState
        BY ONLY <2>2, <3>2, Zenon DEF Exchange!ForwardSafe
      <4> QED BY <4>1 DEF Exchange!PreState, Exchange!CandidateAfter
    <3>3. CASE forward.phase = "publish_pending"
      <4>1. Exchange!PreState \/ Exchange!PostState
        BY ONLY <2>2, <3>3, Zenon DEF Exchange!ForwardSafe
      <4> QED BY <3>0, <4>1 DEF Exchange!PreState, Exchange!PostState, Exchange!CandidateAfter,
              Exchange!CandidateBefore
    <3>4. CASE forward.phase = "applied"
      <4>1. Exchange!PostState
        BY ONLY <2>2, <3>4, Zenon DEF Exchange!ForwardSafe
      <4> QED BY <3>0, <4>1 DEF Exchange!PostState, Exchange!CandidateBefore
    <3> QED BY <1>0, <2>2, <3>1, <3>2, <3>3, <3>4 DEF ExchangeTypes
  <2> QED BY <2>1, <2>2
<1>6. CASE Exchange!OpenDirectory
  BY <1>0, <1>6 DEF Exchange!OpenDirectory, ExchangeTypes
<1>7. CASE Exchange!MakePrivate
  BY <1>0, <1>7 DEF Exchange!MakePrivate, ExchangeTypes, PutBack
<1>8. CASE Exchange!WritePrivate
  BY <1>0, <1>8 DEF Exchange!WritePrivate, ExchangeTypes, PutBack
<1>9. CASE Exchange!ExchangeBack
  BY <1>0, <1>9 DEF Exchange!ExchangeBack, ExchangeTypes
<1>10. CASE Exchange!VerifyRelocated
  BY <1>0, <1>10 DEF Exchange!VerifyRelocated, ExchangeTypes, Exchange!WriteReverse,
     Exchange!ReplacementHere
<1>11. CASE Exchange!SettleExisting
  BY <1>0, <1>11 DEF Exchange!SettleExisting, ExchangeTypes, Exchange!Removable, Exchange!SourceHere
<1>12. CASE Exchange!VerifyMove
  BY <1>0, <1>12 DEF Exchange!VerifyMove, ExchangeTypes, Exchange!PutBackRemoved
<1>13. CASE Exchange!MoveAway
  BY <1>0, <1>13 DEF Exchange!MoveAway, ExchangeTypes, PutBack
<1>14. CASE Exchange!VerifyGone
  BY <1>0, <1>14 DEF Exchange!VerifyGone, ExchangeTypes, Exchange!WriteReverse,
     Exchange!PutBackRemoved
<1>15. CASE Exchange!RemoveSource
  BY <1>0, <1>15 DEF Exchange!RemoveSource, ExchangeTypes, Exchange!Removable, Exchange!SourceHere
<1>16. CASE Exchange!RemovePlaceholder
  BY <1>0, <1>16 DEF Exchange!RemovePlaceholder, ExchangeTypes, PutBack
<1>17. CASE Exchange!RemoveDirectory
  BY <1>0, <1>17 DEF Exchange!RemoveDirectory, ExchangeTypes, PutBack
<1>18. ~Exchange!Edit
  BY <1>0 DEF Exchange!Edit, ExchangeTypes
<1>19. Exchange!PrepareBackup \/ Exchange!SaveBackup \/ Exchange!BackupReady \/
           Exchange!RecordIntent \/ Exchange!BeginPublication \/ Exchange!CandidateReady \/
           Exchange!PublishPending \/ Exchange!CheckSource \/ Exchange!Observe \/
           Exchange!ClearForward \/ Exchange!RecordDone \/ Exchange!Commit \/ Exchange!Reopen \/
           Exchange!ForwardResumed \/ Exchange!ContinueRestore \/ Exchange!NothingToUndo \/
           Exchange!RecordUndoIntent \/ Exchange!Conflict \/ Exchange!BeginRestore \/
           Exchange!VerifySource \/ Exchange!ExchangePending \/ Exchange!VerifyPair \/
           Exchange!SettleAbsent \/ Exchange!ClearReverse \/ Exchange!RecordUndone \/
           Exchange!Complete \/ Exchange!Kill => UNCHANGED Exchange!files
  BY DEF Exchange!PrepareBackup, Exchange!SaveBackup, Exchange!BackupReady, Exchange!RecordIntent,
     Exchange!BeginPublication, Exchange!CandidateReady, Exchange!PublishPending,
     Exchange!CheckSource, Exchange!Observe, Exchange!ClearForward, Exchange!RecordDone,
     Exchange!Commit, Exchange!Reopen, Exchange!ForwardResumed, Exchange!ContinueRestore,
     Exchange!NothingToUndo, Exchange!RecordUndoIntent, Exchange!Conflict, Exchange!BeginRestore,
     Exchange!VerifySource, Exchange!ExchangePending, Exchange!VerifyPair, Exchange!SettleAbsent,
     Exchange!ClearReverse, Exchange!RecordUndone, Exchange!Complete, Exchange!Kill,
     Exchange!WriteForward, Exchange!WriteReverse
<1> QED BY <1>a, <1>1, <1>2, <1>3, <1>4, <1>5, <1>6, <1>7, <1>8, <1>9, <1>10, <1>11, <1>12, <1>13,
        <1>14, <1>15, <1>16, <1>17, <1>18, <1>19, Zenon DEF Exchange!Next, Exchange!Forward,
                 Exchange!Backward

-----------------------------------------------------------------------------
(* The files of a transaction, whichever part is under way: the others     *)
(* leave them alone.                                                       *)
LEMMA FilesKept == DeploymentSpec => [](DirectoryInv /\ ExchangeInv)
<1>1. DeploymentInit => DirectoryInv /\ ExchangeInv
  BY DirectoryInit, ExchangeInit DEF DeploymentInit
<1>2. DirectoryInv /\ [DeploymentNext]_<<part, everything>> => DirectoryInv'
  <2> SUFFICES ASSUME DirectoryInv, [DeploymentNext]_<<part, everything>> PROVE DirectoryInv'
    OBVIOUS
  <2>1. CASE Directories!Next
    BY <2>1, DirectorySteps
  <2>2. CASE UNCHANGED directories
    <3>1. UNCHANGED Directories!vars
      BY <2>2 DEF directories, Directories!vars, Directories!process, Directories!spent
    <3> QED
      BY <3>1, DirectoryStays
  <2> QED
    BY <2>1, <2>2 DEF DeploymentNext, everything
<1>3. ExchangeInv /\ [DeploymentNext]_<<part, everything>> => ExchangeInv'
  <2> SUFFICES ASSUME ExchangeInv, [DeploymentNext]_<<part, everything>> PROVE ExchangeInv'
    OBVIOUS
  <2>1. CASE Exchange!Next
    BY <2>1, ExchangeSteps
  <2>2. CASE UNCHANGED exchange
    <3>1. UNCHANGED Exchange!vars
      BY <2>2 DEF exchange, Exchange!vars, Exchange!files, Exchange!journal, Exchange!process,
         Exchange!spent
    <3> QED
      BY <3>1, ExchangeStays
  <2> QED
    BY <2>1, <2>2 DEF DeploymentNext, everything
<1> QED
  BY <1>1, <1>2, <1>3, PTL DEF DeploymentSpec

\* TransactionJournal, finalize_rollback_cleanup, publish_environment,
\* restore_environment: wherever processes are killed, whatever the operator
\* changes meanwhile, a transaction that was undone leaves the directories as it
\* found them, one that ended leaves no file beside the environment; untouched by
\* the operator it is the one of before or of after, and an undo only fails over
\* what a kill left half made.
THEOREM FilesAreWhole == DeploymentSpec => []FilesWhole
<1>1. DirectoryInv /\ ExchangeInv => FilesWhole
  BY DirectoriesLeftWhole, ExchangeLeftWhole DEF FilesWhole
<1> QED
  BY <1>1, FilesKept, PTL

\* What no step of a transaction may do to what an operator made: change or
\* remove a directory that is not the one in the record, unlink an edited file,
\* write over an edited environment, or take back what was committed.
THEOREM NothingIsTaken == DeploymentSpec => NothingTaken
<1>1. DeploymentSpec => []PrepInv
  <2>1. DeploymentInit => PrepInv
    BY PrepInvInit DEF DeploymentInit
  <2>2. PrepInv /\ [DeploymentNext]_<<part, everything>> => PrepInv'
    BY PrepInvKept DEF DeploymentNext, everything
  <2> QED
    BY <2>1, <2>2, PTL DEF DeploymentSpec
<1>2. PrepInv /\ [DeploymentNext]_<<part, everything>> => [EditStays /\ CommitStays]_vars
  BY TakesNothingBack DEF PrepInv, DeploymentNext, everything
<1>3. DirectoryInv /\ [DeploymentNext]_<<part, everything>>
        => [\A r \in Directories!Roles : dir'[r] # dir[r] /\ UNCHANGED changes =>
              \/ dir[r] = Directories!Missing
              \/ record.entries[r].id = dir[r].id]_Directories!vars
  <2> SUFFICES ASSUME DirectoryInv, [DeploymentNext]_<<part, everything>>,
                      ~UNCHANGED Directories!vars,
                      NEW r \in Directories!Roles, dir'[r] # dir[r], changes' = changes
               PROVE  dir[r] = Directories!Missing \/ record.entries[r].id = dir[r].id
    OBVIOUS
  <2>1. ~UNCHANGED directories
    BY DEF directories, Directories!vars, Directories!process, Directories!spent
  <2>2. Directories!Next
    BY <2>1 DEF DeploymentNext, everything
  <2> QED
    BY <2>2, DirectoriesTouched
<1>4. ExchangeInv /\ [DeploymentNext]_<<part, everything>>
        => [UNCHANGED touches =>
              \A f \in Exchange!Everywhere : f.content = "edited" =>
                  f \in {env', beside', private'.candidate, private'.removed}]_Exchange!vars
  <2> SUFFICES ASSUME ExchangeInv, [DeploymentNext]_<<part, everything>>,
                      ~UNCHANGED Exchange!vars, touches' = touches
               PROVE  \A f \in Exchange!Everywhere : f.content = "edited" =>
                        f \in {env', beside', private'.candidate, private'.removed}
    OBVIOUS
  <2>1. ~UNCHANGED exchange
    BY DEF exchange, Exchange!vars, Exchange!files, Exchange!journal, Exchange!process,
       Exchange!spent
  <2>2. Exchange!Next
    BY <2>1 DEF DeploymentNext, everything
  <2> QED
    BY <2>2, ExchangeKeepsEdits
<1> QED
  BY <1>1, <1>2, <1>3, <1>4, FilesKept, PTL
     DEF DeploymentSpec, NothingTaken, NothingTakenBack, Directories!TouchesOnlyRecorded,
         Exchange!EditKept

=============================================================================
