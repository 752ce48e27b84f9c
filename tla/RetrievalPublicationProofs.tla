--------------------- MODULE RetrievalPublicationProofs ---------------------
(***************************************************************************)
(* Theorems about RetrievalPublication, for any number of names, builders, *)
(* maintainers and readers, and any number of faults, crashes and lost     *)
(* sessions.                                                               *)
(***************************************************************************)
EXTENDS RetrievalPublication, TLAPS

-----------------------------------------------------------------------------
(* Type correctness.                                                       *)

LEMMA ActiveType == Active \in Opt
  BY DEF Active, Opt

LEMMA InitType == Init => TypeOK
  BY BoundsAreNat DEF Init, TypeOK, Opt, Status, SessionState, Task

\* What an idle builder does, and what it does to take the lock.
LEMMA EntryType ==
  ASSUME TypeOK, NEW b \in Builders, Start(b) \/ TakeLock(b) \/ Bootstrap(b)
  PROVE  TypeOK'
<1> USE BoundsAreNat, ActiveType
    DEF TypeOK, Processes, Opt, Status, SessionState, Task, BuilderPC, stores,
        fence, targets, previous, loops, local, budget, Goto, Look, Sound
<1>1. CASE StartBuild(b)
  BY <1>1, SMTT(60) DEF StartBuild, InsertRow
<1>2. CASE BootstrapReadAudit(b)
  BY <1>2, SMTT(60) DEF BootstrapReadAudit
<1>3. CASE BootstrapSkipOrRaise(b)
  BY <1>3, SMTT(60) DEF BootstrapSkipOrRaise, Finish
<1>4. CASE BootstrapBuild(b)
  BY <1>4, SMTT(60) DEF BootstrapBuild, InsertRow
<1>5. CASE Acquire(b)
  BY <1>5, SMTT(60) DEF Acquire, NotAcquired, Enter, Fault
<1>6. CASE RecoverAcquire(b)
  BY <1>6, SMTT(60) DEF RecoverAcquire, RecoverAgain, Finish, Enter, Fault
<1>7. CASE CleanupAcquire(b)
  BY <1>7, SMTT(60) DEF CleanupAcquire, Finish, Enter, Fault
<1> QED
  BY <1>1, <1>2, <1>3, <1>4, <1>5, <1>6, <1>7 DEF Start, TakeLock, Bootstrap

\* The steps of a build.
LEMMA BuildType ==
  ASSUME TypeOK, NEW b \in Builders, Build(b)
  PROVE  TypeOK'
<1> USE BoundsAreNat, ActiveType
    DEF TypeOK, Processes, Opt, Status, SessionState, Task, BuilderPC, stores,
        fence, targets, previous, loops, local, budget, Goto, Look, Sound
<1>1. CASE ReconcileAlias(b)
  BY <1>1, SMTT(60) DEF ReconcileAlias, Fault
<1>2. CASE ReconcileAudit(b)
  BY <1>2, SMTT(60) DEF ReconcileAudit, Fault
<1>3. CASE ResolvePrevious(b)
  BY <1>3, SMTT(60) DEF ResolvePrevious, Fault
<1>4. CASE CreateCollection(b)
  BY <1>4, SMTT(60) DEF CreateCollection, Fault
<1>5. CASE FillCollection(b)
  BY <1>5, SMTT(60) DEF FillCollection, Fault
<1>6. CASE ValidateCollection(b)
  BY <1>6, SMTT(60) DEF ValidateCollection, CountMatches, Fault
<1>7. CASE MarkValidated(b)
  BY <1>7, SMTT(60) DEF MarkValidated, Activates, Fault
<1>8. CASE SwitchAlias(b)
  BY <1>8, SMTT(60) DEF SwitchAlias, PointAlias, Fault
<1>9. CASE MarkActive(b)
  BY <1>9, SMTT(60) DEF MarkActive, FenceFails, Fault
<1>10. CASE VerifyActivation(b)
  BY <1>10, SMTT(60) DEF VerifyActivation, Fault
<1>11. CASE CommitFence(b)
  BY <1>11, SMTT(60) DEF CommitFence, Activates, Committed, Activated,
    Recovered, Finish, Leave, Fault, FenceFails
<1>12. CASE RestoreRead(b)
  BY <1>12, SMTT(60) DEF RestoreRead, Restored, NotRestored, Recovering, Fault
<1>13. CASE RestoreWrite(b)
  BY <1>13, SMTT(60) DEF RestoreWrite, PointAlias, Fault
<1>14. CASE RestoreVerify(b)
  BY <1>14, SMTT(60) DEF RestoreVerify, Restored, NotRestored, RestoreAgain,
    Recovering, Fault
<1>15. CASE CleanupCheck(b)
  BY <1>15, SMTT(60) DEF CleanupCheck, AfterCleanup, Recovering, FenceFails,
    Fault
<1>16. CASE CleanupDelete(b)
  BY <1>16, SMTT(60) DEF CleanupDelete, AfterCleanup, Recovering, Fault
<1>17. CASE RollbackFence(b)
  BY <1>17, SMTT(60) DEF RollbackFence, Leave
<1>18. CASE MarkFailed(b)
  BY <1>18, SMTT(60) DEF MarkFailed, Finish, Fault
<1> QED
  BY <1>1, <1>2, <1>3, <1>4, <1>5, <1>6, <1>7, <1>8, <1>9, <1>10, <1>11, <1>12,
    <1>13, <1>14, <1>15, <1>16, <1>17, <1>18 DEF Build

\* The steps of a recovery.
LEMMA RecoverType ==
  ASSUME TypeOK, NEW b \in Builders, Recover(b)
  PROVE  TypeOK'
<1> USE BoundsAreNat, ActiveType
    DEF TypeOK, Processes, Opt, Status, SessionState, Task, BuilderPC, stores,
        fence, targets, previous, loops, local, budget, Goto, Look, Sound
<1>1. CASE RecoverReadAlias(b)
  BY <1>1, SMTT(60) DEF RecoverReadAlias, RecoverAgain, Finish, Leave, Fault
<1>2. CASE RecoverDecide(b)
  BY <1>2, SMTT(60) DEF RecoverDecide, RecoverAgain, Finish, Leave, FenceFails,
    Fault
<1>3. CASE RecoverAudit(b)
  BY <1>3, SMTT(60) DEF RecoverAudit, FenceFails, Fault
<1>4. CASE RecoverExit(b)
  BY <1>4, SMTT(60) DEF RecoverExit, RecoverAgain, Committed, Activated,
    Recovered, Finish, Leave, Fault, FenceFails
<1>5. CASE CleanupRelease(b)
  BY <1>5, SMTT(60) DEF CleanupRelease, Finish, Leave
<1> QED
  BY <1>1, <1>2, <1>3, <1>4, <1>5 DEF Recover

\* Source maintenance.
LEMMA MaintainType ==
  ASSUME TypeOK, NEW m \in Maintainers, MaintainStart(m) \/ MaintainStep(m)
  PROVE  TypeOK'
<1> USE BoundsAreNat, ActiveType
    DEF TypeOK, Processes, Opt, Status, SessionState, Task, MaintainerPC,
    stores,
        fence, targets, previous, loops, local, budget, Goto, Look, Sound
<1>1. CASE MaintainStart(m)
  BY <1>1, SMTT(60) DEF MaintainStart, Enter
<1>2. CASE MaintainFirstRead(m)
  BY <1>2, SMTT(60) DEF MaintainFirstRead
<1>3. CASE MaintainSecondRead(m)
  BY <1>3, SMTT(60) DEF MaintainSecondRead
<1>4. CASE MaintainWrite(m)
  BY <1>4, SMTT(60) DEF MaintainWrite
<1>5. CASE MaintainRequire(m)
  BY <1>5, SMTT(60) DEF MaintainRequire
<1>6. CASE MaintainFinalize(m)
  BY <1>6, SMTT(60) DEF MaintainFinalize, Finish, Leave
<1>7. CASE MaintainRaise(m)
  BY <1>7, SMTT(60) DEF MaintainRaise, Finish, Leave
<1> QED
  BY <1>1, <1>2, <1>3, <1>4, <1>5, <1>6, <1>7 DEF MaintainStep

\* Queries.
LEMMA ReaderType ==
  ASSUME TypeOK, NEW r \in Readers, ReadAudit(r) \/ ReaderStep(r)
  PROVE  TypeOK'
<1> USE BoundsAreNat, ActiveType
    DEF TypeOK, Processes, Opt, Status, SessionState, Task, ReaderPC, stores,
        fence, targets, previous, loops, local, budget, Goto, Look, Sound
<1>1. CASE ReadAudit(r)
  BY <1>1, SMTT(60) DEF ReadAudit
<1>2. CASE ReadAlias(r)
  BY <1>2, SMTT(60) DEF ReadAlias, Finish
<1>3. CASE Search(r)
  BY <1>3, SMTT(60) DEF Search, Finish
<1> QED
  BY <1>1, <1>2, <1>3 DEF ReaderStep

\* Kills and lost sessions.
LEMMA EnvironmentType ==
  ASSUME TypeOK, NEW p \in Processes, Crash(p) \/ LoseSession(p)
  PROVE  TypeOK'
<1> USE BoundsAreNat, ActiveType
    DEF TypeOK, Processes, Opt, Status, SessionState, Task, BuilderPC, stores,
        fence, targets, previous, loops, local, budget, Goto, Look, Sound
<1>1. CASE Crash(p)
  BY <1>1, SMTT(60) DEF Crash, Finish, Leave
<1>2. CASE LoseSession(p)
  BY <1>2, SMTT(60) DEF LoseSession
<1> QED
  BY <1>1, <1>2 DEF Crash

LEMMA StutterType == TypeOK /\ UNCHANGED vars => TypeOK'
  BY DEF TypeOK, vars, stores, fence, local, targets, previous, loops, budget

LEMMA TypeStep == TypeOK /\ [Next]_vars => TypeOK'
  BY EntryType, BuildType, RecoverType, MaintainType, ReaderType,
     EnvironmentType, StutterType
     DEF Next, BuilderStep

\* Every reachable state is well typed: no step of the protocol, whatever
\* fails, writes a status, a name or a program point outside its type.
THEOREM TypeCorrect == Spec => []TypeOK
  BY InitType, TypeStep, PTL DEF Spec

-----------------------------------------------------------------------------
(* At most one active publication.                                         *)
(*                                                                         *)
(* The recovery makes a second row active without looking at the others in *)
(* the step that commits, so OneActive is not inductive: what the recovery *)
(* checked must still hold when it commits.  It does, because only a live  *)
(* fence session can change which rows are active, and a live session      *)
(* holds the lock.                                                         *)

LiveSession(p) == session[p] \in {"open", "pending", "recovered"}
LiveHoldsLock == \A p \in Processes : LiveSession(p) => lock = p

\* The rows that are active are the recovery's own two.
ActiveWithin(b) ==
    \A d \in Collections : audit[d] = "active" => d \in {coll[b], prevPub[b]}
RecoveredWithin ==
    \A b \in Builders : session[b] = "recovered" =>
        pc[b] = "recExit" /\ ActiveWithin(b)

FenceInv == LiveHoldsLock /\ RecoveredWithin /\ OneActive

LEMMA InitFence == Init => FenceInv
  BY DEF Init, FenceInv, LiveHoldsLock, LiveSession, RecoveredWithin,
         OneActive, Processes

\* With one active row, Active is that row.
LEMMA ActiveIsTheRow ==
  ASSUME OneActive, NEW d \in Collections, audit[d] = "active"
  PROVE  Active = d
  BY DEF OneActive, Active

\* Leaving the block keeps the lock with the live sessions that remain.
LEMMA LeaveLock ==
  ASSUME TypeOK, LiveHoldsLock, NEW p \in Processes, Leave(p)
  PROVE  LiveHoldsLock' /\ session'[p] = "none"
  BY NoneIsFresh DEF TypeOK, LiveHoldsLock, LiveSession, Leave

LEMMA EnterLock ==
  ASSUME TypeOK, LiveHoldsLock, NEW p \in Processes, Enter(p)
  PROVE  LiveHoldsLock' /\ session'[p] = "open"
  BY NoneIsFresh DEF TypeOK, LiveHoldsLock, LiveSession, Enter

\* Most steps make no row active and leave a "recovered" session and its
\* builder alone: they preserve the invariant.
NoNewActive == \A d \in Collections : audit'[d] = "active" => audit[d] = "active"
RecoveredUntouched ==
    \A b \in Builders : session'[b] = "recovered" =>
        /\ session[b] = "recovered"
        /\ pc'[b] = pc[b] /\ coll'[b] = coll[b] /\ prevPub'[b] = prevPub[b]

LEMMA Harmless ==
  ASSUME FenceInv, NoNewActive, RecoveredUntouched, LiveHoldsLock'
  PROVE  FenceInv'
  BY DEF FenceInv, RecoveredWithin, ActiveWithin, OneActive, NoNewActive,
         RecoveredUntouched

\* The two steps that commit a fence transaction: no other session is live, so
\* no other recovery is pending, and the rows it writes leave one active.
LEMMA CommitPreserves ==
  ASSUME TypeOK, FenceInv, NEW b \in Builders, CommitFence(b) \/ RecoverExit(b)
  PROVE  FenceInv'
<1>1. Leave(b) /\ (audit' = audit \/ audit' = Committed(b))
  BY DEF CommitFence, RecoverExit, stores
<1>2. LiveHoldsLock' /\ session'[b] = "none"
  BY <1>1, LeaveLock DEF FenceInv, Processes
<1>3. \A a \in Builders \ {b} :
         session'[a] = session[a] /\ pc'[a] = pc[a] /\ coll'[a] = coll[a]
           /\ prevPub'[a] = prevPub[a]
  BY <1>1 DEF Leave, CommitFence, RecoverExit, RecoverAgain, Finish, Goto,
     local, targets, previous, TypeOK, Processes
<1>4. RecoveredUntouched
  BY <1>2, <1>3 DEF RecoveredUntouched
<1>5. CASE audit' = audit
  BY <1>2, <1>4, <1>5, Harmless DEF NoNewActive
<1>6. CASE session[b] = "pending" /\ audit' = Activated(coll[b])
  <2>1. OneActive'
    BY <1>6 DEF OneActive, Activated
  <2>2. \A a \in Builders : session'[a] # "recovered"
    BY <1>2, <1>3, <1>6 DEF FenceInv, LiveHoldsLock, LiveSession, Processes
  <2> QED
    BY <1>2, <2>1, <2>2 DEF FenceInv, RecoveredWithin
<1>7. CASE session[b] = "recovered" /\ audit' = Recovered(coll[b], prevPub[b])
  <2>1. ActiveWithin(b)
    BY <1>7 DEF FenceInv, RecoveredWithin
  <2>2. OneActive'
    BY <1>7, <2>1 DEF OneActive, Recovered, ActiveWithin
  <2>3. \A a \in Builders : session'[a] # "recovered"
    BY <1>2, <1>3, <1>7 DEF FenceInv, LiveHoldsLock, LiveSession, Processes
  <2> QED
    BY <1>2, <2>2, <2>3 DEF FenceInv, RecoveredWithin
<1> QED
  BY <1>1, <1>5, <1>6, <1>7 DEF Committed

\* recover_publication_activation: what it checks is what the invariant records.
LEMMA RecoverAuditPreserves ==
  ASSUME TypeOK, FenceInv, NEW b \in Builders, RecoverAudit(b)
  PROVE  FenceInv'
<1>1. LiveHoldsLock' /\ OneActive'
  BY DEF RecoverAudit, FenceInv, LiveHoldsLock, LiveSession, OneActive, TypeOK,
     stores, Processes
<1>2. Recoverable(b) => ActiveWithin(b)
  <2> SUFFICES ASSUME Recoverable(b), NEW d \in Collections, audit[d] = "active"
               PROVE  d \in {coll[b], prevPub[b]}
    BY DEF ActiveWithin
  <2>1. Active = d
    BY ActiveIsTheRow DEF FenceInv
  <2>2. Active \in {None, coll[b], prevPub[b]}
    BY DEF Recoverable
  <2> QED
    BY <2>1, <2>2, NoneIsFresh
<1>3. RecoveredWithin'
  BY <1>2 DEF RecoverAudit, FenceInv, RecoveredWithin, ActiveWithin, stores,
     local, targets, previous, Goto, TypeOK, Processes
<1> QED
  BY <1>1, <1>3 DEF FenceInv

\* What an idle builder does, and what it does to take the lock.
LEMMA EntryFence ==
  ASSUME TypeOK, FenceInv,
         NEW b \in Builders, Start(b) \/ TakeLock(b) \/ Bootstrap(b)
  PROVE  FenceInv'
<1> USE NoneIsFresh, ProcessesDisjoint, Harmless
    DEF FenceInv, LiveHoldsLock, LiveSession, RecoveredWithin, NoNewActive,
        RecoveredUntouched, TypeOK, Processes, stores, fence, targets, previous,
        loops, local, Goto, Look
<1>1. CASE StartBuild(b)
  BY <1>1 DEF StartBuild, InsertRow
<1>2. CASE BootstrapReadAudit(b)
  BY <1>2 DEF BootstrapReadAudit
<1>3. CASE BootstrapSkipOrRaise(b)
  BY <1>3 DEF BootstrapSkipOrRaise, Finish
<1>4. CASE BootstrapBuild(b)
  BY <1>4 DEF BootstrapBuild, InsertRow
<1>5. CASE Acquire(b)
  BY <1>5 DEF Acquire, NotAcquired, Enter
<1>6. CASE RecoverAcquire(b)
  BY <1>6 DEF RecoverAcquire, RecoverAgain, Finish, Enter
<1>7. CASE CleanupAcquire(b)
  BY <1>7 DEF CleanupAcquire, Finish, Enter
<1> QED
  BY <1>1, <1>2, <1>3, <1>4, <1>5, <1>6, <1>7 DEF Start, TakeLock, Bootstrap

\* The steps of a build.
LEMMA BuildFence ==
  ASSUME TypeOK, FenceInv, NEW b \in Builders, Build(b)
  PROVE  FenceInv'
<1> USE NoneIsFresh, ProcessesDisjoint, Harmless
    DEF FenceInv, LiveHoldsLock, LiveSession, RecoveredWithin, NoNewActive,
        RecoveredUntouched, TypeOK, Processes, stores, fence, targets, previous,
        loops, local, Goto, Look
<1>1. CASE ReconcileAlias(b)
  BY <1>1 DEF ReconcileAlias
<1>2. CASE ReconcileAudit(b)
  BY <1>2 DEF ReconcileAudit
<1>3. CASE ResolvePrevious(b)
  BY <1>3 DEF ResolvePrevious
<1>4. CASE CreateCollection(b)
  BY <1>4 DEF CreateCollection
<1>5. CASE FillCollection(b)
  BY <1>5 DEF FillCollection
<1>6. CASE ValidateCollection(b)
  BY <1>6 DEF ValidateCollection, CountMatches
<1>7. CASE MarkValidated(b)
  BY <1>7 DEF MarkValidated, Activates
<1>8. CASE SwitchAlias(b)
  BY <1>8 DEF SwitchAlias, PointAlias
<1>9. CASE MarkActive(b)
  BY <1>9 DEF MarkActive
<1>10. CASE VerifyActivation(b)
  BY <1>10 DEF VerifyActivation
<1>11. CASE CommitFence(b)
  BY CommitPreserves, <1>11
<1>12. CASE RestoreRead(b)
  BY <1>12 DEF RestoreRead, Restored, NotRestored, Recovering
<1>13. CASE RestoreWrite(b)
  BY <1>13 DEF RestoreWrite, PointAlias
<1>14. CASE RestoreVerify(b)
  BY <1>14 DEF RestoreVerify, Restored, NotRestored, RestoreAgain, Recovering
<1>15. CASE CleanupCheck(b)
  BY <1>15 DEF CleanupCheck, AfterCleanup, Recovering
<1>16. CASE CleanupDelete(b)
  BY <1>16 DEF CleanupDelete, AfterCleanup, Recovering
<1>17. CASE RollbackFence(b)
  BY <1>17 DEF RollbackFence, Leave
<1>18. CASE MarkFailed(b)
  BY <1>18 DEF MarkFailed, Finish
<1> QED
  BY <1>1, <1>2, <1>3, <1>4, <1>5, <1>6, <1>7, <1>8, <1>9, <1>10, <1>11,
  <1>12, <1>13, <1>14, <1>15, <1>16, <1>17, <1>18 DEF Build

\* The steps of a recovery.
LEMMA RecoverFence ==
  ASSUME TypeOK, FenceInv, NEW b \in Builders, Recover(b)
  PROVE  FenceInv'
<1> USE NoneIsFresh, ProcessesDisjoint, Harmless
    DEF FenceInv, LiveHoldsLock, LiveSession, RecoveredWithin, NoNewActive,
        RecoveredUntouched, TypeOK, Processes, stores, fence, targets, previous,
        loops, local, Goto, Look
<1>1. CASE RecoverReadAlias(b)
  BY <1>1 DEF RecoverReadAlias, RecoverAgain, Finish, Leave
<1>2. CASE RecoverDecide(b)
  BY <1>2 DEF RecoverDecide, RecoverAgain, Finish, Leave
<1>3. CASE RecoverAudit(b)
  BY RecoverAuditPreserves, <1>3
<1>4. CASE RecoverExit(b)
  BY CommitPreserves, <1>4
<1>5. CASE CleanupRelease(b)
  BY <1>5 DEF CleanupRelease, Finish, Leave
<1> QED
  BY <1>1, <1>2, <1>3, <1>4, <1>5 DEF Recover

\* Source maintenance.
LEMMA MaintainFence ==
  ASSUME TypeOK, FenceInv,
         NEW m \in Maintainers, MaintainStart(m) \/ MaintainStep(m)
  PROVE  FenceInv'
<1> USE NoneIsFresh, ProcessesDisjoint, Harmless
    DEF FenceInv, LiveHoldsLock, LiveSession, RecoveredWithin, NoNewActive,
        RecoveredUntouched, TypeOK, Processes, stores, fence, targets, previous,
        loops, local, Goto, Look
<1>1. CASE MaintainStart(m)
  BY <1>1 DEF MaintainStart, Enter
<1>2. CASE MaintainFirstRead(m)
  BY <1>2 DEF MaintainFirstRead
<1>3. CASE MaintainSecondRead(m)
  BY <1>3 DEF MaintainSecondRead
<1>4. CASE MaintainWrite(m)
  BY <1>4 DEF MaintainWrite
<1>5. CASE MaintainRequire(m)
  BY <1>5 DEF MaintainRequire
<1>6. CASE MaintainFinalize(m)
  BY <1>6 DEF MaintainFinalize, Finish, Leave
<1>7. CASE MaintainRaise(m)
  BY <1>7 DEF MaintainRaise, Finish, Leave
<1> QED
  BY <1>1, <1>2, <1>3, <1>4, <1>5, <1>6, <1>7 DEF MaintainStep

\* Queries.
LEMMA ReaderFence ==
  ASSUME TypeOK, FenceInv, NEW r \in Readers, ReadAudit(r) \/ ReaderStep(r)
  PROVE  FenceInv'
<1> USE NoneIsFresh, ProcessesDisjoint, Harmless
    DEF FenceInv, LiveHoldsLock, LiveSession, RecoveredWithin, NoNewActive,
        RecoveredUntouched, TypeOK, Processes, stores, fence, targets, previous,
        loops, local, Goto, Look
<1>1. CASE ReadAudit(r)
  BY <1>1 DEF ReadAudit
<1>2. CASE ReadAlias(r)
  BY <1>2 DEF ReadAlias, Finish
<1>3. CASE Search(r)
  BY <1>3 DEF Search, Finish
<1> QED
  BY <1>1, <1>2, <1>3 DEF ReaderStep

\* Kills and lost sessions.
LEMMA EnvironmentFence ==
  ASSUME TypeOK, FenceInv, NEW p \in Processes, Crash(p) \/ LoseSession(p)
  PROVE  FenceInv'
<1> USE NoneIsFresh, ProcessesDisjoint, Harmless
    DEF FenceInv, LiveHoldsLock, LiveSession, RecoveredWithin, NoNewActive,
        RecoveredUntouched, TypeOK, Processes, stores, fence, targets, previous,
        loops, local, Goto, Look
<1>1. CASE Crash(p)
  BY <1>1 DEF Crash, Finish, Leave
<1>2. CASE LoseSession(p)
  BY <1>2 DEF LoseSession
<1> QED
  BY <1>1, <1>2 DEF Crash

LEMMA StutterFence == FenceInv /\ UNCHANGED vars => FenceInv'
  BY DEF FenceInv, LiveHoldsLock, LiveSession, RecoveredWithin, ActiveWithin,
         OneActive, vars, stores, fence, local, targets, previous

LEMMA FenceStep == TypeOK /\ FenceInv /\ [Next]_vars => FenceInv'
  BY EntryFence, BuildFence, RecoverFence, MaintainFence, ReaderFence,
     EnvironmentFence, StutterFence
     DEF Next, BuilderStep

\* Whatever calls fail, processes die or sessions are lost, the audit never
\* holds two active publications of the alias.
THEOREM AtMostOneActive == Spec => []OneActive
<1>1. FenceInv => OneActive
  BY DEF FenceInv
<1> QED
  BY TypeCorrect, InitFence, FenceStep, <1>1, PTL DEF Spec

-----------------------------------------------------------------------------
(* What is served is complete, maintenance writes to what is served, and a *)
(* clean-up spares it.                                                     *)
(*                                                                         *)
(* Two invariants carry the three theorems.  NameInv holds whatever fails: *)
(* a name has one owner, the owner's row says how far its build is, and no *)
(* name anybody remembers is half built.  HeldInv is about the fence: as   *)
(* long as no session is lost, a step inside the block has the lock, so    *)
(* what it looked at before (the alias, the active row) is still so.       *)
(* Without `lost = 0` that part is false, and so is ServedComplete: a      *)
(* builder whose session was dropped can point the alias back to a         *)
(* generation between another recovery's check and its deletion, and a     *)
(* third builder, recovering from a commit it could not see, then makes    *)
(* that row active again.                                                  *)

\* Before a collection is created its row is "building"; from the switch to
\* the commit it is "validated".
Early == {"acquire", "reconcile", "reconcileAudit", "resolvePrev", "create"}
Switching == {"switch", "markActive", "verify", "commit"}
BeforeCommit ==
    {"idle", "bootAlias", "fill", "validate", "markValidated"}
        \cup Early \cup Switching
RecoveryPC ==
    {"recAcquire", "recLive", "recDecide", "recAudit", "recExit",
     "cleanAcquire", "cleanRelease"}

\* A row that was active once, or discarded; a collection that will not be
\* half built again.
Past(c) == audit[c] \in {"active", "retired", "failed"}
Formed(c) == audit[c] \notin {"none", "building"} /\ store[c] # "partial"

\* A publication row belongs to the builder that inserted it.
OneOwner ==
    /\ \A b \in Builders : coll[b] # None => audit[coll[b]] # "none"
    /\ \A a, b \in Builders : coll[a] = coll[b] /\ coll[a] # None => a = b
    /\ \A b \in Builders : pc[b] \notin {"idle", "bootAlias"} => coll[b] # None
\* How far its owner is, and what the row and the collection are by then.  Only
\* a recovery can meet a row that was active.
OwnerStatus ==
    \A b \in Builders :
        /\ pc[b] \in Early => audit[coll[b]] = "building"
        /\ pc[b] \in Switching => audit[coll[b]] = "validated"
        /\ pc[b] \in Switching \cup {"markValidated"} => store[coll[b]] = "complete"
        /\ pc[b] \in RecoveryPC => Recovering(b)
        /\ Recovering(b) => pc[b] \notin BeforeCommit /\ session[b] # "pending"
        /\ pc[b] \in FencedPC /\ ~Recovering(b) =>
             audit[coll[b]] \in {"building", "validated"}
\* Every name the alias, a publisher's memory or a query holds is formed.
NamesFormed ==
    /\ \A c \in Collections :
         audit[c] \in {"validated", "active", "retired"} => store[c] # "partial"
    /\ alias # None => Formed(alias)
    /\ \A b \in Builders :
         /\ prev[b] # None => Formed(prev[b])
         /\ prevPub[b] # None => Formed(prevPub[b]) /\ Past(prevPub[b])
    /\ \A r \in Readers :
         /\ coll[r] # None => Formed(coll[r])
         /\ pc[r] = "rSearch" => coll[r] # None

NameInv == OneOwner /\ OwnerStatus /\ NamesFormed

\* While no session is lost, a step inside the fence has the lock.
Fenced ==
    /\ lost = 0 => \A p \in Processes : session[p] # "lost"
    /\ \A b \in Builders : pc[b] \in FencedPC => session[b] # "none"
    /\ \A m \in Maintainers : pc[m] \in MaintainerPC => session[m] # "none"

\* After _reconcile_alias_audit the two halves of fence_state agree.
PastPrev ==
    BuilderPC \ ({"bootAlias", "rollback", "markFailed"} \cup (Early \ {"create"}))

\* What a builder inside the fence last looked at still holds.
BuilderLook ==
    \A b \in Builders :
        /\ pc[b] \in {"reconcileAudit", "recDecide"} => live[b] = alias
        /\ pc[b] = "resolvePrev" => prevPub[b] = alias
        /\ pc[b] \in PastPrev => prev[b] = prevPub[b]
        /\ pc[b] = "recAudit" => prev[b] = alias
        /\ pc[b] = "recExit" /\ session[b] = "recovered" => prevPub[b] = alias
        /\ pc[b] = "cleanDelete" => audit[coll[b]] # "active" /\ alias # coll[b]
\* The same for source maintenance, whose two reads come in either order.
MaintainerLook ==
    \A m \in Maintainers :
        /\ pc[m] = "mSecond" =>
             IF task[m] = "upsert" THEN coll[m] = Active ELSE live[m] = alias
        /\ pc[m] \in {"mWrite", "mRequire", "mFinalize"} =>
             coll[m] = Active /\ alias = Active
Complete ==
    /\ \A c \in Collections : audit[c] = "active" => store[c] = "complete"
    /\ alias # None => store[alias] = "complete"

Looks == BuilderLook /\ MaintainerLook /\ Complete
HeldInv == Fenced /\ (lost = 0 => Looks)

\* CHOOSE picks an active row whenever there is one.
LEMMA ActiveStatus == Active # None => audit[Active] = "active"
  BY NoneIsFresh DEF Active

\* Starts and takings of the lock keep the names.
LEMMA EntryNames ==
  ASSUME TypeOK, FenceInv, NameInv,
         NEW b \in Builders, Start(b) \/ TakeLock(b) \/ Bootstrap(b)
  PROVE  NameInv'
<1> USE NoneIsFresh, ProcessesDisjoint, ActiveType, ActiveStatus
    DEF NameInv, OneOwner, OwnerStatus, NamesFormed, Past, Formed, Early,
        Switching, BeforeCommit, RecoveryPC, Enter, Leave, FencedPC, BuilderPC,
        Recovering, TypeOK,
        Processes, Opt, stores, fence, targets, previous, loops, local, Goto,
        Look
<1>1. CASE StartBuild(b)
  BY <1>1, SMTT(60) DEF StartBuild, InsertRow
<1>2. CASE BootstrapReadAudit(b)
  BY <1>2, SMTT(60) DEF BootstrapReadAudit
<1>3. CASE BootstrapSkipOrRaise(b)
  BY <1>3, SMTT(60) DEF BootstrapSkipOrRaise, Finish
<1>4. CASE BootstrapBuild(b)
  BY <1>4, SMTT(60) DEF BootstrapBuild, InsertRow
<1>5. CASE Acquire(b)
  BY <1>5, SMTT(60) DEF Acquire, NotAcquired, Enter
<1>6. CASE RecoverAcquire(b)
  BY <1>6, SMTT(60) DEF RecoverAcquire, RecoverAgain, Finish, Enter
<1>7. CASE CleanupAcquire(b)
  BY <1>7, SMTT(60) DEF CleanupAcquire, Finish, Enter
<1> QED
  BY <1>1, <1>2, <1>3, <1>4, <1>5, <1>6, <1>7 DEF Start, TakeLock, Bootstrap

\* The steps of a build keep the names.
LEMMA BuildNames ==
  ASSUME TypeOK, FenceInv, NameInv, NEW b \in Builders, Build(b)
  PROVE  NameInv'
<1> USE NoneIsFresh, ProcessesDisjoint, ActiveType, ActiveStatus
    DEF NameInv, OneOwner, OwnerStatus, NamesFormed, Past, Formed, Early,
        Switching, BeforeCommit, RecoveryPC, Enter, Leave, FencedPC, BuilderPC,
        Recovering, TypeOK,
        Processes, Opt, stores, fence, targets, previous, loops, local, Goto,
        Look
<1>1. CASE ReconcileAlias(b)
  BY <1>1, SMTT(60) DEF ReconcileAlias
<1>2. CASE ReconcileAudit(b)
  BY <1>2, SMTT(60) DEF ReconcileAudit
<1>3. CASE ResolvePrevious(b)
  BY <1>3, SMTT(60) DEF ResolvePrevious
<1>4. CASE CreateCollection(b)
  BY <1>4, SMTT(60) DEF CreateCollection
<1>5. CASE FillCollection(b)
  BY <1>5, SMTT(60) DEF FillCollection
<1>6. CASE ValidateCollection(b)
  BY <1>6, SMTT(60) DEF ValidateCollection, CountMatches
<1>7. CASE MarkValidated(b)
  BY <1>7, SMTT(60) DEF MarkValidated, Activates
<1>8. CASE SwitchAlias(b)
  BY <1>8, SMTT(60) DEF SwitchAlias, PointAlias
<1>9. CASE MarkActive(b)
  BY <1>9, SMTT(60) DEF MarkActive
<1>10. CASE VerifyActivation(b)
  BY <1>10, SMTT(60) DEF VerifyActivation
<1>11. CASE CommitFence(b)
  BY <1>11, SMTT(60) DEF CommitFence, Activates, Committed, Activated,
    Recovered, Finish
<1>12. CASE RestoreRead(b)
  BY <1>12, SMTT(60) DEF RestoreRead, Restored, NotRestored
<1>13. CASE RestoreWrite(b)
  BY <1>13, SMTT(60) DEF RestoreWrite, PointAlias
<1>14. CASE RestoreVerify(b)
  BY <1>14, SMTT(60) DEF RestoreVerify, Restored, NotRestored, RestoreAgain
<1>15. CASE CleanupCheck(b)
  BY <1>15, SMTT(60) DEF CleanupCheck, AfterCleanup
<1>16. CASE CleanupDelete(b)
  BY <1>16, SMTT(60) DEF CleanupDelete, AfterCleanup
<1>17. CASE RollbackFence(b)
  BY <1>17, SMTT(60) DEF RollbackFence
<1>18. CASE MarkFailed(b)
  BY <1>18, SMTT(60) DEF MarkFailed, Finish
<1> QED
  BY <1>1, <1>2, <1>3, <1>4, <1>5, <1>6, <1>7, <1>8, <1>9, <1>10, <1>11, <1>12,
    <1>13, <1>14, <1>15, <1>16, <1>17, <1>18 DEF Build

\* The steps of a recovery keep the names.
LEMMA RecoverNames ==
  ASSUME TypeOK, FenceInv, NameInv, NEW b \in Builders, Recover(b)
  PROVE  NameInv'
<1> USE NoneIsFresh, ProcessesDisjoint, ActiveType, ActiveStatus
    DEF NameInv, OneOwner, OwnerStatus, NamesFormed, Past, Formed, Early,
        Switching, BeforeCommit, RecoveryPC, Enter, Leave, FencedPC, BuilderPC,
        Recovering, TypeOK,
        Processes, Opt, stores, fence, targets, previous, loops, local, Goto,
        Look
<1>1. CASE RecoverReadAlias(b)
  BY <1>1, SMTT(60) DEF RecoverReadAlias, RecoverAgain, Finish
<1>2. CASE RecoverDecide(b)
  BY <1>2, SMTT(60) DEF RecoverDecide, RecoverAgain, Finish
<1>3. CASE RecoverAudit(b)
  BY <1>3, SMTT(60) DEF RecoverAudit
<1>4. CASE RecoverExit(b)
  BY <1>4, SMTT(60) DEF RecoverExit, RecoverAgain, Committed, Activated,
    Recovered, Finish
<1>5. CASE CleanupRelease(b)
  BY <1>5, SMTT(60) DEF CleanupRelease, Finish
<1> QED
  BY <1>1, <1>2, <1>3, <1>4, <1>5 DEF Recover

\* Source maintenance keeps the names.
LEMMA MaintainNames ==
  ASSUME TypeOK, FenceInv, NameInv,
         NEW m \in Maintainers, MaintainStart(m) \/ MaintainStep(m)
  PROVE  NameInv'
<1> USE NoneIsFresh, ProcessesDisjoint, ActiveType, ActiveStatus
    DEF NameInv, OneOwner, OwnerStatus, NamesFormed, Past, Formed, Early,
        Switching, BeforeCommit, RecoveryPC, Enter, Leave, FencedPC, BuilderPC,
        Recovering, TypeOK,
        Processes, Opt, stores, fence, targets, previous, loops, local, Goto,
        Look
<1>1. CASE MaintainStart(m)
  BY <1>1, SMTT(60) DEF MaintainStart
<1>2. CASE MaintainFirstRead(m)
  BY <1>2, SMTT(60) DEF MaintainFirstRead
<1>3. CASE MaintainSecondRead(m)
  BY <1>3, SMTT(60) DEF MaintainSecondRead
<1>4. CASE MaintainWrite(m)
  BY <1>4, SMTT(60) DEF MaintainWrite
<1>5. CASE MaintainRequire(m)
  BY <1>5, SMTT(60) DEF MaintainRequire
<1>6. CASE MaintainFinalize(m)
  BY <1>6, SMTT(60) DEF MaintainFinalize, Finish
<1>7. CASE MaintainRaise(m)
  BY <1>7, SMTT(60) DEF MaintainRaise, Finish
<1> QED
  BY <1>1, <1>2, <1>3, <1>4, <1>5, <1>6, <1>7 DEF MaintainStep

\* Queries keep the names.
LEMMA ReaderNames ==
  ASSUME TypeOK, FenceInv, NameInv,
         NEW r \in Readers, ReadAudit(r) \/ ReaderStep(r)
  PROVE  NameInv'
<1> USE NoneIsFresh, ProcessesDisjoint, ActiveType, ActiveStatus
    DEF NameInv, OneOwner, OwnerStatus, NamesFormed, Past, Formed, Early,
        Switching, BeforeCommit, RecoveryPC, Enter, Leave, FencedPC, BuilderPC,
        Recovering, TypeOK,
        Processes, Opt, stores, fence, targets, previous, loops, local, Goto,
        Look
<1>1. CASE ReadAudit(r)
  BY <1>1, SMTT(60) DEF ReadAudit
<1>2. CASE ReadAlias(r)
  BY <1>2, SMTT(60) DEF ReadAlias, Finish
<1>3. CASE Search(r)
  BY <1>3, SMTT(60) DEF Search, Finish
<1> QED
  BY <1>1, <1>2, <1>3 DEF ReaderStep

\* Kills and lost sessions keep the names.
LEMMA EnvironmentNames ==
  ASSUME TypeOK, FenceInv, NameInv,
         NEW p \in Processes, Crash(p) \/ LoseSession(p)
  PROVE  NameInv'
<1> USE NoneIsFresh, ProcessesDisjoint, ActiveType, ActiveStatus
    DEF NameInv, OneOwner, OwnerStatus, NamesFormed, Past, Formed, Early,
        Switching, BeforeCommit, RecoveryPC, Enter, Leave, FencedPC, BuilderPC,
        Recovering, TypeOK,
        Processes, Opt, stores, fence, targets, previous, loops, local, Goto,
        Look
<1>1. CASE Crash(p)
  BY <1>1, SMTT(60) DEF Crash, Finish
<1>2. CASE LoseSession(p)
  BY <1>2, SMTT(60) DEF LoseSession
<1> QED
  BY <1>1, <1>2 DEF Crash

\* Once a session is lost, the count of lost ones stays above zero.
LostOnlyGrows == lost' = 0 => lost = 0

\* Starts and takings of the lock keep the fence.
LEMMA EntryFenced ==
  ASSUME TypeOK, FenceInv, Fenced,
         NEW b \in Builders, Start(b) \/ TakeLock(b) \/ Bootstrap(b)
  PROVE  Fenced' /\ LostOnlyGrows
<1> USE NoneIsFresh, ProcessesDisjoint
    DEF Fenced, LostOnlyGrows, FencedPC, BuilderPC, MaintainerPC, FenceInv,
        LiveHoldsLock, LiveSession, FenceFails, Fault, Sound, budget, Enter,
        Leave, TypeOK, Processes, stores, fence, targets, previous, loops,
        local, Goto, Look
<1>1. CASE StartBuild(b)
  BY <1>1, SMTT(60) DEF StartBuild, InsertRow
<1>2. CASE BootstrapReadAudit(b)
  BY <1>2, SMTT(60) DEF BootstrapReadAudit
<1>3. CASE BootstrapSkipOrRaise(b)
  BY <1>3, SMTT(60) DEF BootstrapSkipOrRaise, Finish
<1>4. CASE BootstrapBuild(b)
  BY <1>4, SMTT(60) DEF BootstrapBuild, InsertRow
<1>5. CASE Acquire(b)
  BY <1>5, SMTT(60) DEF Acquire, NotAcquired, Enter
<1>6. CASE RecoverAcquire(b)
  BY <1>6, SMTT(60) DEF RecoverAcquire, RecoverAgain, Finish, Enter
<1>7. CASE CleanupAcquire(b)
  BY <1>7, SMTT(60) DEF CleanupAcquire, Finish, Enter
<1> QED
  BY <1>1, <1>2, <1>3, <1>4, <1>5, <1>6, <1>7 DEF Start, TakeLock, Bootstrap

\* The steps of a build keep the fence.
LEMMA BuildFenced ==
  ASSUME TypeOK, FenceInv, Fenced, NEW b \in Builders, Build(b)
  PROVE  Fenced' /\ LostOnlyGrows
<1> USE NoneIsFresh, ProcessesDisjoint
    DEF Fenced, LostOnlyGrows, FencedPC, BuilderPC, MaintainerPC, FenceInv,
        LiveHoldsLock, LiveSession, FenceFails, Fault, Sound, budget, Enter,
        Leave, TypeOK, Processes, stores, fence, targets, previous, loops,
        local, Goto, Look
<1>1. CASE ReconcileAlias(b)
  BY <1>1, SMTT(60) DEF ReconcileAlias
<1>2. CASE ReconcileAudit(b)
  BY <1>2, SMTT(60) DEF ReconcileAudit
<1>3. CASE ResolvePrevious(b)
  BY <1>3, SMTT(60) DEF ResolvePrevious
<1>4. CASE CreateCollection(b)
  BY <1>4, SMTT(60) DEF CreateCollection
<1>5. CASE FillCollection(b)
  BY <1>5, SMTT(60) DEF FillCollection
<1>6. CASE ValidateCollection(b)
  BY <1>6, SMTT(60) DEF ValidateCollection, CountMatches
<1>7. CASE MarkValidated(b)
  BY <1>7, SMTT(60) DEF MarkValidated, Activates
<1>8. CASE SwitchAlias(b)
  BY <1>8, SMTT(60) DEF SwitchAlias, PointAlias
<1>9. CASE MarkActive(b)
  BY <1>9, SMTT(60) DEF MarkActive
<1>10. CASE VerifyActivation(b)
  BY <1>10, SMTT(60) DEF VerifyActivation
<1>11. CASE CommitFence(b)
  BY <1>11, SMTT(60) DEF CommitFence, Activates, Committed, Activated,
    Recovered, Finish
<1>12. CASE RestoreRead(b)
  BY <1>12, SMTT(60) DEF RestoreRead, Restored, NotRestored
<1>13. CASE RestoreWrite(b)
  BY <1>13, SMTT(60) DEF RestoreWrite, PointAlias
<1>14. CASE RestoreVerify(b)
  BY <1>14, SMTT(60) DEF RestoreVerify, Restored, NotRestored, RestoreAgain
<1>15. CASE CleanupCheck(b)
  BY <1>15, SMTT(60) DEF CleanupCheck, AfterCleanup, Referenced
<1>16. CASE CleanupDelete(b)
  BY <1>16, SMTT(60) DEF CleanupDelete, AfterCleanup
<1>17. CASE RollbackFence(b)
  BY <1>17, SMTT(60) DEF RollbackFence
<1>18. CASE MarkFailed(b)
  BY <1>18, SMTT(60) DEF MarkFailed, Finish
<1> QED
  BY <1>1, <1>2, <1>3, <1>4, <1>5, <1>6, <1>7, <1>8, <1>9, <1>10, <1>11, <1>12,
    <1>13, <1>14, <1>15, <1>16, <1>17, <1>18 DEF Build

\* The steps of a recovery keep the fence.
LEMMA RecoverFenced ==
  ASSUME TypeOK, FenceInv, Fenced, NEW b \in Builders, Recover(b)
  PROVE  Fenced' /\ LostOnlyGrows
<1> USE NoneIsFresh, ProcessesDisjoint
    DEF Fenced, LostOnlyGrows, FencedPC, BuilderPC, MaintainerPC, FenceInv,
        LiveHoldsLock, LiveSession, FenceFails, Fault, Sound, budget, Enter,
        Leave, TypeOK, Processes, stores, fence, targets, previous, loops,
        local, Goto, Look
<1>1. CASE RecoverReadAlias(b)
  BY <1>1, SMTT(60) DEF RecoverReadAlias, RecoverAgain, Finish
<1>2. CASE RecoverDecide(b)
  BY <1>2, SMTT(60) DEF RecoverDecide, RecoverAgain, Finish
<1>3. CASE RecoverAudit(b)
  BY <1>3, SMTT(60) DEF RecoverAudit
<1>4. CASE RecoverExit(b)
  BY <1>4, SMTT(60) DEF RecoverExit, RecoverAgain, Committed, Activated,
    Recovered, Finish
<1>5. CASE CleanupRelease(b)
  BY <1>5, SMTT(60) DEF CleanupRelease, Finish
<1> QED
  BY <1>1, <1>2, <1>3, <1>4, <1>5 DEF Recover

\* Source maintenance keeps the fence.
LEMMA MaintainFenced ==
  ASSUME TypeOK, FenceInv, Fenced,
         NEW m \in Maintainers, MaintainStart(m) \/ MaintainStep(m)
  PROVE  Fenced' /\ LostOnlyGrows
<1> USE NoneIsFresh, ProcessesDisjoint
    DEF Fenced, LostOnlyGrows, FencedPC, BuilderPC, MaintainerPC, FenceInv,
        LiveHoldsLock, LiveSession, FenceFails, Fault, Sound, budget, Enter,
        Leave, TypeOK, Processes, stores, fence, targets, previous, loops,
        local, Goto, Look
<1>1. CASE MaintainStart(m)
  BY <1>1, SMTT(60) DEF MaintainStart, Enter
<1>2. CASE MaintainFirstRead(m)
  BY <1>2, SMTT(60) DEF MaintainFirstRead
<1>3. CASE MaintainSecondRead(m)
  BY <1>3, SMTT(60) DEF MaintainSecondRead, LivePublication
<1>4. CASE MaintainWrite(m)
  BY <1>4, SMTT(60) DEF MaintainWrite
<1>5. CASE MaintainRequire(m)
  BY <1>5, SMTT(60) DEF MaintainRequire
<1>6. CASE MaintainFinalize(m)
  BY <1>6, SMTT(60) DEF MaintainFinalize, Finish
<1>7. CASE MaintainRaise(m)
  BY <1>7, SMTT(60) DEF MaintainRaise, Finish
<1> QED
  BY <1>1, <1>2, <1>3, <1>4, <1>5, <1>6, <1>7 DEF MaintainStep

\* Queries keep the fence.
LEMMA ReaderFenced ==
  ASSUME TypeOK, FenceInv, Fenced,
         NEW r \in Readers, ReadAudit(r) \/ ReaderStep(r)
  PROVE  Fenced' /\ LostOnlyGrows
<1> USE NoneIsFresh, ProcessesDisjoint
    DEF Fenced, LostOnlyGrows, FencedPC, BuilderPC, MaintainerPC, FenceInv,
        LiveHoldsLock, LiveSession, FenceFails, Fault, Sound, budget, Enter,
        Leave, TypeOK, Processes, stores, fence, targets, previous, loops,
        local, Goto, Look
<1>1. CASE ReadAudit(r)
  BY <1>1, SMTT(60) DEF ReadAudit
<1>2. CASE ReadAlias(r)
  BY <1>2, SMTT(60) DEF ReadAlias, Finish
<1>3. CASE Search(r)
  BY <1>3, SMTT(60) DEF Search, Finish
<1> QED
  BY <1>1, <1>2, <1>3 DEF ReaderStep

\* Kills and lost sessions keep the fence.
LEMMA EnvironmentFenced ==
  ASSUME TypeOK, FenceInv, Fenced,
         NEW p \in Processes, Crash(p) \/ LoseSession(p)
  PROVE  Fenced' /\ LostOnlyGrows
<1> USE NoneIsFresh, ProcessesDisjoint
    DEF Fenced, LostOnlyGrows, FencedPC, BuilderPC, MaintainerPC, FenceInv,
        LiveHoldsLock, LiveSession, FenceFails, Fault, Sound, budget, Enter,
        Leave, TypeOK, Processes, stores, fence, targets, previous, loops,
        local, Goto, Look
<1>1. CASE Crash(p)
  BY <1>1, SMTT(60) DEF Crash, Finish
<1>2. CASE LoseSession(p)
  BY <1>2, SMTT(60) DEF LoseSession
<1> QED
  BY <1>1, <1>2 DEF Crash

\* Inside a `with alias_publication_lock` block.
Inside(p) ==
    \/ p \in Builders /\ pc[p] \in FencedPC
    \/ p \in Maintainers /\ pc[p] \in MaintainerPC

Alone == \A p, q \in Processes : Inside(p) /\ Inside(q) => p = q

\* While no session is lost, the fence lets one process in at a time.
LEMMA FenceIsExclusive ==
  ASSUME TypeOK, FenceInv, Fenced, lost = 0
  PROVE  Alone
  BY SMTT(60) DEF Alone, Inside, TypeOK, FenceInv, LiveHoldsLock, LiveSession,
    Fenced, Processes, SessionState

\* Active names exactly the active rows.
ActiveRow ==
    Active \in Opt /\ \A c \in Collections : audit[c] = "active" <=> Active = c

\* At most one active row: Active is that row, now and after a step.
LEMMA ActiveIsOneRow == OneActive => ActiveRow
  BY NoneIsFresh, ActiveType, ActiveStatus, ActiveIsTheRow DEF ActiveRow, Opt

LEMMA ActiveRowAfter == OneActive' => ActiveRow'
  BY ActiveIsOneRow, PTL

\* Starts and takings of the lock keep what was looked at.
LEMMA EntryLooks ==
  ASSUME TypeOK, RecoveredWithin, NameInv, Alone, ActiveRow, ActiveRow', Looks,
         NEW b \in Builders, Start(b) \/ TakeLock(b) \/ Bootstrap(b)
  PROVE  Looks'
<1> USE NoneIsFresh, ProcessesDisjoint
    DEF Looks, BuilderLook, MaintainerLook, Complete, ActiveRow, Alone, Inside,
    NameInv, OneOwner, OwnerStatus, NamesFormed, Past, Formed, Early,
    Switching, RecoveryPC, BeforeCommit, Recovering,
        FencedPC, BuilderPC, MaintainerPC, PastPrev, Enter, Leave, TypeOK,
        Processes, Opt, stores, fence, targets, previous, loops, local, Goto, Look
<1>1. CASE StartBuild(b)
  BY <1>1, SMTT(60) DEF StartBuild, InsertRow
<1>2. CASE BootstrapReadAudit(b)
  BY <1>2, SMTT(60) DEF BootstrapReadAudit
<1>3. CASE BootstrapSkipOrRaise(b)
  <2>1. BuilderLook'
    BY <1>3, SMTT(60) DEF BootstrapSkipOrRaise, Finish
  <2>2. MaintainerLook'
    BY <1>3, SMTT(60) DEF BootstrapSkipOrRaise, Finish
  <2>3. Complete'
    BY <1>3, SMTT(60) DEF BootstrapSkipOrRaise, Finish
  <2> QED  BY <2>1, <2>2, <2>3
<1>4. CASE BootstrapBuild(b)
  BY <1>4, SMTT(60) DEF BootstrapBuild, InsertRow
<1>5. CASE Acquire(b)
  BY <1>5, SMTT(60) DEF Acquire, NotAcquired, Enter
<1>6. CASE RecoverAcquire(b)
  <2>1. BuilderLook'
    BY <1>6, SMTT(60) DEF RecoverAcquire, RecoverAgain, Finish, Enter
  <2>2. MaintainerLook'
    BY <1>6, SMTT(60) DEF RecoverAcquire, RecoverAgain, Finish, Enter
  <2>3. Complete'
    BY <1>6, SMTT(60) DEF RecoverAcquire, RecoverAgain, Finish, Enter
  <2> QED  BY <2>1, <2>2, <2>3
<1>7. CASE CleanupAcquire(b)
  <2>1. BuilderLook'
    BY <1>7, SMTT(60) DEF CleanupAcquire, Finish, Enter
  <2>2. MaintainerLook'
    BY <1>7, SMTT(60) DEF CleanupAcquire, Finish, Enter
  <2>3. Complete'
    BY <1>7, SMTT(60) DEF CleanupAcquire, Finish, Enter
  <2> QED  BY <2>1, <2>2, <2>3
<1> QED
  BY <1>1, <1>2, <1>3, <1>4, <1>5, <1>6, <1>7 DEF Start, TakeLock, Bootstrap

\* The steps of a build keep what was looked at.
LEMMA BuildLooks ==
  ASSUME TypeOK, RecoveredWithin, NameInv, Alone, ActiveRow, ActiveRow', Looks,
         NEW b \in Builders, Build(b)
  PROVE  Looks'
<1> USE NoneIsFresh, ProcessesDisjoint
    DEF Looks, BuilderLook, MaintainerLook, Complete, ActiveRow, Alone, Inside,
    NameInv, OneOwner, OwnerStatus, NamesFormed, Past, Formed, Early,
    Switching, RecoveryPC, BeforeCommit, Recovering,
        FencedPC, BuilderPC, MaintainerPC, PastPrev, Enter, Leave, TypeOK,
        Processes, Opt, stores, fence, targets, previous, loops, local, Goto, Look
<1>1. CASE ReconcileAlias(b)
  BY <1>1, SMTT(60) DEF ReconcileAlias
<1>2. CASE ReconcileAudit(b)
  BY <1>2, SMTT(60) DEF ReconcileAudit
<1>3. CASE ResolvePrevious(b)
  BY <1>3, SMTT(60) DEF ResolvePrevious
<1>4. CASE CreateCollection(b)
  BY <1>4, SMTT(60) DEF CreateCollection
<1>5. CASE FillCollection(b)
  BY <1>5, SMTT(60) DEF FillCollection
<1>6. CASE ValidateCollection(b)
  BY <1>6, SMTT(60) DEF ValidateCollection, CountMatches
<1>7. CASE MarkValidated(b)
  BY <1>7, SMTT(60) DEF MarkValidated, Activates
<1>8. CASE SwitchAlias(b)
  <2>1. BuilderLook'
    BY <1>8, SMTT(60) DEF SwitchAlias, PointAlias
  <2>2. MaintainerLook'
    BY <1>8, SMTT(60) DEF SwitchAlias, PointAlias
  <2>3. Complete'
    BY <1>8, SMTT(60) DEF SwitchAlias, PointAlias
  <2> QED  BY <2>1, <2>2, <2>3
<1>9. CASE MarkActive(b)
  BY <1>9, SMTT(60) DEF MarkActive
<1>10. CASE VerifyActivation(b)
  BY <1>10, SMTT(60) DEF VerifyActivation
<1>11. CASE CommitFence(b)
  BY <1>11, SMTT(60) DEF RecoveredWithin, CommitFence, Activates, Committed,
    Activated, Recovered, Finish
<1>12. CASE RestoreRead(b)
  BY <1>12, SMTT(60) DEF RecoveredWithin, RestoreRead, Restored, NotRestored
<1>13. CASE RestoreWrite(b)
  <2>1. BuilderLook'
    BY <1>13, SMTT(60) DEF RestoreWrite, PointAlias
  <2>2. MaintainerLook'
    BY <1>13, SMTT(60) DEF RestoreWrite, PointAlias
  <2>3. Complete'
    BY <1>13, SMTT(60) DEF RestoreWrite, PointAlias
  <2> QED  BY <2>1, <2>2, <2>3
<1>14. CASE RestoreVerify(b)
  BY <1>14, SMTT(60) DEF RecoveredWithin, RestoreVerify, Restored, NotRestored,
    RestoreAgain
<1>15. CASE CleanupCheck(b)
  BY <1>15, SMTT(60) DEF CleanupCheck, AfterCleanup, Referenced
<1>16. CASE CleanupDelete(b)
  BY <1>16, SMTT(60) DEF CleanupDelete, AfterCleanup
<1>17. CASE RollbackFence(b)
  BY <1>17, SMTT(60) DEF RollbackFence
<1>18. CASE MarkFailed(b)
  <2>1. BuilderLook'
    BY <1>18, SMTT(60) DEF MarkFailed, Finish
  <2>2. MaintainerLook'
    BY <1>18, SMTT(60) DEF MarkFailed, Finish
  <2>3. Complete'
    BY <1>18, SMTT(60) DEF MarkFailed, Finish
  <2> QED  BY <2>1, <2>2, <2>3
<1> QED
  BY <1>1, <1>2, <1>3, <1>4, <1>5, <1>6, <1>7, <1>8, <1>9, <1>10, <1>11, <1>12,
    <1>13, <1>14, <1>15, <1>16, <1>17, <1>18 DEF Build

\* The steps of a recovery keep what was looked at.
LEMMA RecoverLooks ==
  ASSUME TypeOK, RecoveredWithin, NameInv, Alone, ActiveRow, ActiveRow', Looks,
         NEW b \in Builders, Recover(b)
  PROVE  Looks'
<1> USE NoneIsFresh, ProcessesDisjoint
    DEF Looks, BuilderLook, MaintainerLook, Complete, ActiveRow, Alone, Inside,
    NameInv, OneOwner, OwnerStatus, NamesFormed, Past, Formed, Early,
    Switching, RecoveryPC, BeforeCommit, Recovering,
        FencedPC, BuilderPC, MaintainerPC, PastPrev, Enter, Leave, TypeOK,
        Processes, Opt, stores, fence, targets, previous, loops, local, Goto, Look
<1>1. CASE RecoverReadAlias(b)
  BY <1>1, SMTT(60) DEF RecoverReadAlias, RecoverAgain, Finish
<1>2. CASE RecoverDecide(b)
  BY <1>2, SMTT(60) DEF RecoveredWithin, RecoverDecide, RecoverAgain, Finish
<1>3. CASE RecoverAudit(b)
  BY <1>3, SMTT(60) DEF RecoverAudit
<1>4. CASE RecoverExit(b)
  BY <1>4, SMTT(60) DEF RecoverExit, RecoverAgain, Committed, Activated,
    Recovered, Finish
<1>5. CASE CleanupRelease(b)
  BY <1>5, SMTT(60) DEF CleanupRelease, Finish
<1> QED
  BY <1>1, <1>2, <1>3, <1>4, <1>5 DEF Recover

\* Source maintenance keeps what was looked at.
LEMMA MaintainLooks ==
  ASSUME TypeOK, RecoveredWithin, NameInv, Alone, ActiveRow, ActiveRow', Looks,
         NEW m \in Maintainers, MaintainStart(m) \/ MaintainStep(m)
  PROVE  Looks'
<1> USE NoneIsFresh, ProcessesDisjoint
    DEF Looks, BuilderLook, MaintainerLook, Complete, ActiveRow, Alone, Inside,
    NameInv, OneOwner, OwnerStatus, NamesFormed, Past, Formed, Early,
    Switching, RecoveryPC, BeforeCommit, Recovering,
        FencedPC, BuilderPC, MaintainerPC, PastPrev, Enter, Leave, TypeOK,
        Processes, Opt, stores, fence, targets, previous, loops, local, Goto, Look
<1>1. CASE MaintainStart(m)
  BY <1>1, SMTT(60) DEF MaintainStart, Enter
<1>2. CASE MaintainFirstRead(m)
  BY <1>2, SMTT(60) DEF MaintainFirstRead
<1>3. CASE MaintainSecondRead(m)
  BY <1>3, SMTT(60) DEF MaintainSecondRead, LivePublication
<1>4. CASE MaintainWrite(m)
  BY <1>4, SMTT(60) DEF MaintainWrite
<1>5. CASE MaintainRequire(m)
  BY <1>5, SMTT(60) DEF MaintainRequire
<1>6. CASE MaintainFinalize(m)
  BY <1>6, SMTT(60) DEF MaintainFinalize, Finish
<1>7. CASE MaintainRaise(m)
  BY <1>7, SMTT(60) DEF MaintainRaise, Finish
<1> QED
  BY <1>1, <1>2, <1>3, <1>4, <1>5, <1>6, <1>7 DEF MaintainStep

\* Queries keep what was looked at.
LEMMA ReaderLooks ==
  ASSUME TypeOK, RecoveredWithin, NameInv, Alone, ActiveRow, ActiveRow', Looks,
         NEW r \in Readers, ReadAudit(r) \/ ReaderStep(r)
  PROVE  Looks'
<1> USE NoneIsFresh, ProcessesDisjoint
    DEF Looks, BuilderLook, MaintainerLook, Complete, ActiveRow, Alone, Inside,
    NameInv, OneOwner, OwnerStatus, NamesFormed, Past, Formed, Early,
    Switching, RecoveryPC, BeforeCommit, Recovering,
        FencedPC, BuilderPC, MaintainerPC, PastPrev, Enter, Leave, TypeOK,
        Processes, Opt, stores, fence, targets, previous, loops, local, Goto, Look
<1>1. CASE ReadAudit(r)
  BY <1>1, SMTT(60) DEF ReadAudit
<1>2. CASE ReadAlias(r)
  BY <1>2, SMTT(60) DEF ReadAlias, Finish
<1>3. CASE Search(r)
  BY <1>3, SMTT(60) DEF Search, Finish
<1> QED
  BY <1>1, <1>2, <1>3 DEF ReaderStep

\* Kills and lost sessions keep what was looked at.
LEMMA EnvironmentLooks ==
  ASSUME TypeOK, RecoveredWithin, NameInv, Alone, ActiveRow, ActiveRow', Looks,
         NEW p \in Processes, Crash(p) \/ LoseSession(p)
  PROVE  Looks'
<1> USE NoneIsFresh, ProcessesDisjoint
    DEF Looks, BuilderLook, MaintainerLook, Complete, ActiveRow, Alone, Inside,
    NameInv, OneOwner, OwnerStatus, NamesFormed, Past, Formed, Early,
    Switching, RecoveryPC, BeforeCommit, Recovering,
        FencedPC, BuilderPC, MaintainerPC, PastPrev, Enter, Leave, TypeOK,
        Processes, Opt, stores, fence, targets, previous, loops, local, Goto, Look
<1>1. CASE Crash(p)
  BY <1>1, SMTT(60) DEF Crash, Finish
<1>2. CASE LoseSession(p)
  BY <1>2, SMTT(60) DEF LoseSession
<1> QED
  BY <1>1, <1>2 DEF Crash
\* Nobody is at work and nothing is served at first.
LEMMA InitServed == Init => NameInv /\ HeldInv
  BY NoneIsFresh, ProcessesDisjoint
     DEF Init, NameInv, OneOwner, OwnerStatus, NamesFormed, HeldInv, Fenced,
     Looks,
         BuilderLook, MaintainerLook, Complete, Processes, Early, Switching,
         BeforeCommit, RecoveryPC, Recovering, FencedPC, BuilderPC, MaintainerPC, PastPrev

\* A step that changes nothing keeps both invariants.
LEMMA StutterServed ==
  ASSUME NameInv, HeldInv, UNCHANGED vars
  PROVE  NameInv' /\ HeldInv'
<1> USE DEF vars, stores, fence, local, targets, previous, loops, budget
<1>1. Active' = Active
  BY DEF Active
<1>2. NameInv'
  BY DEF NameInv, OneOwner, OwnerStatus, NamesFormed, Formed, Past, Recovering
<1>3. Fenced'
  BY DEF HeldInv, Fenced
<1>4. Looks => Looks'
  BY <1>1 DEF Looks, BuilderLook, MaintainerLook, Complete
<1> QED
  BY <1>2, <1>3, <1>4 DEF HeldInv

\* Every step keeps both invariants.
LEMMA ServedStep ==
  ASSUME TypeOK, TypeOK', FenceInv, FenceInv', NameInv, HeldInv, [Next]_vars
  PROVE  NameInv' /\ HeldInv'
<1>1. CASE UNCHANGED vars
  BY <1>1, StutterServed
<1>2. CASE Next
  <2>1. NameInv'
    BY <1>2, EntryNames, BuildNames, RecoverNames, MaintainNames, ReaderNames,
       EnvironmentNames DEF Next, BuilderStep
  <2>2. Fenced' /\ LostOnlyGrows
    BY <1>2, EntryFenced, BuildFenced, RecoverFenced, MaintainFenced,
       ReaderFenced, EnvironmentFenced DEF Next, BuilderStep, HeldInv
  <2>3. ASSUME lost' = 0 PROVE Looks'
    <3>1. lost = 0
      BY <2>2, <2>3 DEF LostOnlyGrows
    <3>2. Alone /\ Looks
      BY <3>1, FenceIsExclusive DEF HeldInv
    <3>3. OneActive /\ OneActive' /\ RecoveredWithin
      BY DEF FenceInv
    <3>4. ActiveRow
      BY <3>3, ActiveIsOneRow
    <3>5. ActiveRow'
      BY <3>3, ActiveRowAfter
    <3> QED
      BY <1>2, <3>2, <3>3, <3>4, <3>5, EntryLooks, BuildLooks, RecoverLooks,
        MaintainLooks,
         ReaderLooks, EnvironmentLooks DEF Next, BuilderStep
  <2> QED
    BY <2>1, <2>2, <2>3 DEF HeldInv
<1> QED
  BY <1>1, <1>2

\* The inductive invariant.
ServedInv == TypeOK /\ FenceInv /\ NameInv /\ HeldInv

\* It holds in every reachable state.
LEMMA ServedInvariant == Spec => []ServedInv
<1>1. Init => ServedInv
  BY InitType, InitFence, InitServed DEF ServedInv
<1>2. ServedInv /\ [Next]_vars => ServedInv'
  BY TypeStep, FenceStep, ServedStep DEF ServedInv
<1> QED
  BY <1>1, <1>2, PTL DEF Spec

\* Whatever calls fail, also before or after they took effect, and whichever
\* processes are killed: as long as PostgreSQL drops no session that holds the
\* fence, the active row and the alias only ever name complete collections; and
\* with lost sessions too, no query searches a half-built one.
THEOREM ServedIsComplete ==
  Spec => [](TypeOK /\ QueryNotPartial /\ (lost = 0 => ServedSound))
<1>1. ServedInv => QueryNotPartial
  BY NoneIsFresh DEF ServedInv, NameInv, NamesFormed, Formed, QueryNotPartial
<1>2. ServedInv /\ lost = 0 => ServedComplete
  BY DEF ServedInv, HeldInv, Looks, Complete, ServedComplete
<1>3. ServedInv => TypeOK /\ QueryNotPartial /\ (lost = 0 => ServedSound)
  BY <1>1, <1>2 DEF ServedInv, ServedSound
<1> QED
  BY ServedInvariant, <1>3, PTL

\* Source maintenance writes points and database rows only for the generation
\* that alias and audit agree on, after any number of failures and kills.
THEOREM MaintenanceNeedsLive == Spec => []MaintenanceOnLive
<1>1. ServedInv => MaintenanceOnLive
  BY DEF ServedInv, HeldInv, Looks, MaintainerLook, MaintenanceOnLive
<1> QED
  BY ServedInvariant, <1>1, PTL

\* A collection disappears only under a clean-up of its own builder.
OnlyCleanupDeletes ==
    \A c \in Collections : store[c] # "absent" /\ store'[c] = "absent" =>
        \E b \in Builders : coll[b] = c /\ pc[b] = "cleanDelete"

\* Starts and takings of the lock delete in a clean-up only.
LEMMA EntryDeletes ==
  ASSUME TypeOK, NEW b \in Builders, Start(b) \/ TakeLock(b) \/ Bootstrap(b)
  PROVE  OnlyCleanupDeletes
<1> USE DEF OnlyCleanupDeletes, TypeOK, Processes, Opt, stores, fence, targets,
        previous, loops, local, Goto, Look
<1>1. CASE StartBuild(b)
  BY <1>1, SMTT(60) DEF StartBuild
<1>2. CASE BootstrapReadAudit(b)
  BY <1>2, SMTT(60) DEF BootstrapReadAudit
<1>3. CASE BootstrapSkipOrRaise(b)
  BY <1>3, SMTT(60) DEF BootstrapSkipOrRaise
<1>4. CASE BootstrapBuild(b)
  BY <1>4, SMTT(60) DEF BootstrapBuild
<1>5. CASE Acquire(b)
  BY <1>5, SMTT(60) DEF Acquire
<1>6. CASE RecoverAcquire(b)
  BY <1>6, SMTT(60) DEF RecoverAcquire
<1>7. CASE CleanupAcquire(b)
  BY <1>7, SMTT(60) DEF CleanupAcquire
<1> QED
  BY <1>1, <1>2, <1>3, <1>4, <1>5, <1>6, <1>7 DEF Start, TakeLock, Bootstrap

\* The steps of a build delete in a clean-up only.
LEMMA BuildDeletes ==
  ASSUME TypeOK, NEW b \in Builders, Build(b)
  PROVE  OnlyCleanupDeletes
<1> USE DEF OnlyCleanupDeletes, TypeOK, Processes, Opt, stores, fence, targets,
        previous, loops, local, Goto, Look
<1>1. CASE ReconcileAlias(b)
  BY <1>1, SMTT(60) DEF ReconcileAlias
<1>2. CASE ReconcileAudit(b)
  BY <1>2, SMTT(60) DEF ReconcileAudit
<1>3. CASE ResolvePrevious(b)
  BY <1>3, SMTT(60) DEF ResolvePrevious
<1>4. CASE CreateCollection(b)
  BY <1>4, SMTT(60) DEF CreateCollection
<1>5. CASE FillCollection(b)
  BY <1>5, SMTT(60) DEF FillCollection
<1>6. CASE ValidateCollection(b)
  BY <1>6, SMTT(60) DEF ValidateCollection
<1>7. CASE MarkValidated(b)
  BY <1>7, SMTT(60) DEF MarkValidated
<1>8. CASE SwitchAlias(b)
  BY <1>8, SMTT(60) DEF SwitchAlias
<1>9. CASE MarkActive(b)
  BY <1>9, SMTT(60) DEF MarkActive
<1>10. CASE VerifyActivation(b)
  BY <1>10, SMTT(60) DEF VerifyActivation
<1>11. CASE CommitFence(b)
  BY <1>11, SMTT(60) DEF CommitFence
<1>12. CASE RestoreRead(b)
  BY <1>12, SMTT(60) DEF RestoreRead
<1>13. CASE RestoreWrite(b)
  BY <1>13, SMTT(60) DEF RestoreWrite
<1>14. CASE RestoreVerify(b)
  BY <1>14, SMTT(60) DEF RestoreVerify
<1>15. CASE CleanupCheck(b)
  BY <1>15, SMTT(60) DEF CleanupCheck
<1>16. CASE CleanupDelete(b)
  BY <1>16, SMTT(60) DEF CleanupDelete, AfterCleanup
<1>17. CASE RollbackFence(b)
  BY <1>17, SMTT(60) DEF RollbackFence
<1>18. CASE MarkFailed(b)
  BY <1>18, SMTT(60) DEF MarkFailed
<1> QED
  BY <1>1, <1>2, <1>3, <1>4, <1>5, <1>6, <1>7, <1>8, <1>9, <1>10, <1>11, <1>12,
    <1>13, <1>14, <1>15, <1>16, <1>17, <1>18 DEF Build

\* The steps of a recovery delete in a clean-up only.
LEMMA RecoverDeletes ==
  ASSUME TypeOK, NEW b \in Builders, Recover(b)
  PROVE  OnlyCleanupDeletes
<1> USE DEF OnlyCleanupDeletes, TypeOK, Processes, Opt, stores, fence, targets,
        previous, loops, local, Goto, Look
<1>1. CASE RecoverReadAlias(b)
  BY <1>1, SMTT(60) DEF RecoverReadAlias
<1>2. CASE RecoverDecide(b)
  BY <1>2, SMTT(60) DEF RecoverDecide
<1>3. CASE RecoverAudit(b)
  BY <1>3, SMTT(60) DEF RecoverAudit
<1>4. CASE RecoverExit(b)
  BY <1>4, SMTT(60) DEF RecoverExit
<1>5. CASE CleanupRelease(b)
  BY <1>5, SMTT(60) DEF CleanupRelease
<1> QED
  BY <1>1, <1>2, <1>3, <1>4, <1>5 DEF Recover

\* Source maintenance deletes in a clean-up only.
LEMMA MaintainDeletes ==
  ASSUME TypeOK, NEW m \in Maintainers, MaintainStart(m) \/ MaintainStep(m)
  PROVE  OnlyCleanupDeletes
<1> USE DEF OnlyCleanupDeletes, TypeOK, Processes, Opt, stores, fence, targets,
        previous, loops, local, Goto, Look
<1>1. CASE MaintainStart(m)
  BY <1>1, SMTT(60) DEF MaintainStart
<1>2. CASE MaintainFirstRead(m)
  BY <1>2, SMTT(60) DEF MaintainFirstRead
<1>3. CASE MaintainSecondRead(m)
  BY <1>3, SMTT(60) DEF MaintainSecondRead
<1>4. CASE MaintainWrite(m)
  BY <1>4, SMTT(60) DEF MaintainWrite
<1>5. CASE MaintainRequire(m)
  BY <1>5, SMTT(60) DEF MaintainRequire
<1>6. CASE MaintainFinalize(m)
  BY <1>6, SMTT(60) DEF MaintainFinalize
<1>7. CASE MaintainRaise(m)
  BY <1>7, SMTT(60) DEF MaintainRaise
<1> QED
  BY <1>1, <1>2, <1>3, <1>4, <1>5, <1>6, <1>7 DEF MaintainStep

\* Queries delete in a clean-up only.
LEMMA ReaderDeletes ==
  ASSUME TypeOK, NEW r \in Readers, ReadAudit(r) \/ ReaderStep(r)
  PROVE  OnlyCleanupDeletes
<1> USE DEF OnlyCleanupDeletes, TypeOK, Processes, Opt, stores, fence, targets,
        previous, loops, local, Goto, Look
<1>1. CASE ReadAudit(r)
  BY <1>1, SMTT(60) DEF ReadAudit
<1>2. CASE ReadAlias(r)
  BY <1>2, SMTT(60) DEF ReadAlias
<1>3. CASE Search(r)
  BY <1>3, SMTT(60) DEF Search
<1> QED
  BY <1>1, <1>2, <1>3 DEF ReaderStep

\* Kills and lost sessions delete in a clean-up only.
LEMMA EnvironmentDeletes ==
  ASSUME TypeOK, NEW p \in Processes, Crash(p) \/ LoseSession(p)
  PROVE  OnlyCleanupDeletes
<1> USE DEF OnlyCleanupDeletes, TypeOK, Processes, Opt, stores, fence, targets,
        previous, loops, local, Goto, Look
<1>1. CASE Crash(p)
  BY <1>1, SMTT(60) DEF Crash, Finish
<1>2. CASE LoseSession(p)
  BY <1>2, SMTT(60) DEF LoseSession
<1> QED
  BY <1>1, <1>2 DEF Crash

\* So it is for every step.
LEMMA DeletionStep ==
  ASSUME TypeOK, [Next]_vars
  PROVE  OnlyCleanupDeletes
<1>1. CASE UNCHANGED vars
  BY <1>1 DEF vars, stores, OnlyCleanupDeletes
<1> QED
  BY <1>1, EntryDeletes, BuildDeletes, RecoverDeletes, MaintainDeletes,
     ReaderDeletes, EnvironmentDeletes DEF Next, BuilderStep

\* A clean-up never deletes what the audit or the alias names, and a generation
\* that was served only while its own builder recovers from a commit whose
\* outcome it could not see.
THEOREM CleanupSparesServed == Spec => CleanupSpares
<1>1. ASSUME ServedInv, [Next]_vars, lost = 0, NEW c \in Collections,
             store[c] # "absent", store'[c] = "absent"
      PROVE  /\ c # Active /\ c # alias
             /\ audit[c] = "retired" =>
                  \E b \in Builders : coll[b] = c /\ Recovering(b)
  <2>1. PICK b \in Builders : coll[b] = c /\ pc[b] = "cleanDelete"
    BY <1>1, DeletionStep DEF ServedInv, OnlyCleanupDeletes
  <2>2. audit[c] # "active" /\ alias # c
    BY <1>1, <2>1 DEF ServedInv, HeldInv, Looks, BuilderLook
  <2>3. c # Active
    BY <2>2, ActiveStatus, NoneIsFresh
  <2>4. ~Recovering(b) => audit[c] \in {"building", "validated"}
    BY <1>1, <2>1 DEF ServedInv, NameInv, OwnerStatus, FencedPC, BuilderPC
  <2> QED
    BY <2>1, <2>2, <2>3, <2>4
<1>2. ServedInv /\ [Next]_vars =>
        (lost = 0 => \A c \in Collections : store[c] # "absent" /\ store'[c] = "absent" =>
            /\ c # Active /\ c # alias
            /\ audit[c] = "retired" =>
                 \E b \in Builders : coll[b] = c /\ Recovering(b))
  BY <1>1
<1> QED
  BY ServedInvariant, <1>2, PTL DEF Spec, CleanupSpares

-----------------------------------------------------------------------------
(* The protocol implements ServedIndex.                                    *)
(*                                                                         *)
(* Moving the alias never hurts: queries compare it with the active row.   *)
(* What the refinement needs is that a commit activates a row only while   *)
(* the alias is on it, and that a recovery reinstates the row that is      *)
(* current anyway: Lineage, again for as long as no session is lost.       *)

\* Where alias and audit stand to each other when a builder is about to touch
\* them: what it builds is the next generation, and what it remembers as the
\* previous one is the current one, or was when its commit failed.
Restoring == {"restoreRead", "restoreWrite", "restoreVerify"}
Ambiguous ==
    Restoring \cup {"recAcquire", "recLive", "recDecide", "recAudit", "recExit"}
Descends(b) ==
    /\ pc[b] = "resolvePrev" => prevPub[b] = Active
    /\ pc[b] \in PastPrev => prev[b] # coll[b]
    /\ pc[b] \in PastPrev /\ ~Recovering(b) => prev[b] = Active
    /\ session[b] = "pending" => pc[b] \in {"verify", "commit", "cleanCheck"} \cup Restoring
    /\ pc[b] = "commit" /\ session[b] = "pending" => alias = coll[b]
    /\ pc[b] = "restoreWrite" => alias = coll[b]
    /\ pc[b] \in Restoring \cup {"recAudit"} => Active # coll[b]
    /\ pc[b] \in Ambiguous =>
         /\ alias = coll[b] => Active \in {coll[b], prev[b]}
         /\ Active = coll[b] => alias # prev[b]
    /\ pc[b] = "recExit" /\ session[b] = "recovered" =>
         Active = prevPub[b] /\ audit[coll[b]] \in {"validated", "failed"}
FirstIsFirst == Active = None => \A c \in Collections : audit[c] # "retired"
Lineage == (\A b \in Builders : Descends(b)) /\ FirstIsFirst


\* Starts and takings of the lock keep the lineage.
LEMMA EntryLineage ==
  ASSUME TypeOK, RecoveredWithin, NameInv, Alone, ActiveRow, ActiveRow', Looks, Lineage,
         NEW b \in Builders, Start(b) \/ TakeLock(b) \/ Bootstrap(b)
  PROVE  Lineage'
<1> USE NoneIsFresh, ProcessesDisjoint
    DEF Looks, BuilderLook, Lineage, Descends, FirstIsFirst, Ambiguous,
        Restoring, ActiveRow, Alone, Inside,
    NameInv, OneOwner, OwnerStatus, NamesFormed, Past, Formed, Early,
    Switching, RecoveryPC, BeforeCommit, Recovering,
        FencedPC, BuilderPC, MaintainerPC, PastPrev, Enter, Leave, TypeOK,
        Processes, Opt, stores, fence, targets, previous, loops, local, Goto, Look
<1>1. CASE StartBuild(b)
  BY <1>1, SMTT(60) DEF StartBuild, InsertRow
<1>2. CASE BootstrapReadAudit(b)
  BY <1>2, SMTT(60) DEF BootstrapReadAudit
<1>3. CASE BootstrapSkipOrRaise(b)
  BY <1>3, SMTT(60) DEF BootstrapSkipOrRaise, Finish
<1>4. CASE BootstrapBuild(b)
  BY <1>4, SMTT(60) DEF BootstrapBuild, InsertRow
<1>5. CASE Acquire(b)
  BY <1>5, SMTT(60) DEF Acquire, NotAcquired, Enter
<1>6. CASE RecoverAcquire(b)
  BY <1>6, SMTT(60) DEF RecoverAcquire, RecoverAgain, Finish, Enter
<1>7. CASE CleanupAcquire(b)
  BY <1>7, SMTT(60) DEF CleanupAcquire, Finish, Enter
<1> QED
  BY <1>1, <1>2, <1>3, <1>4, <1>5, <1>6, <1>7 DEF Start, TakeLock, Bootstrap

\* The switch of the alias.
LEMMA SwitchLineage ==
  ASSUME TypeOK, NameInv, Alone, ActiveRow, Looks, Lineage,
         NEW b \in Builders, SwitchAlias(b)
  PROVE  Lineage'
<1>1. /\ alias' \in {alias, coll[b]} /\ audit' = audit
      /\ UNCHANGED <<coll, prev, prevPub, tries, session>>
      /\ pc[b] = "switch" /\ \A a \in Builders \ {b} : pc'[a] = pc[a]
      /\ pc'[b] \in {"markActive", "restoreRead"}
  BY SMTT(60) DEF SwitchAlias, PointAlias, TypeOK, Processes, Goto, fence, local,
     targets, previous, loops
<1>2. /\ audit[coll[b]] = "validated" /\ coll[b] \in Collections
      /\ prev[b] # coll[b] /\ prev[b] = Active /\ ~Recovering(b)
  BY <1>1, NoneIsFresh DEF NameInv, OneOwner, OwnerStatus, Switching,
     BeforeCommit, Lineage, Descends,
     PastPrev, BuilderPC, Early, TypeOK, Processes, Opt
<1>3. Active' = Active /\ Active # coll[b] /\ Active \in Opt
  BY <1>1, <1>2 DEF Active, ActiveRow
<1>4. \A a \in Builders \ {b} : pc[a] \notin FencedPC /\ coll[a] # coll[b]
  BY <1>1, <1>2, NoneIsFresh DEF Alone, Inside, NameInv, OneOwner, FencedPC,
     BuilderPC,
     Processes
<1>5. \A a \in Builders \ {b} : pc[a] \in PastPrev => prev[a] # coll[b]
  BY <1>1, <1>2, NoneIsFresh DEF Looks, BuilderLook, NameInv, NamesFormed, Past
<1>6. \A a \in Builders : pc[a] \in Restoring \cup {"recAcquire", "recLive", "recDecide",
        "recAudit", "recExit"} => pc[a] \in PastPrev
  BY DEF Restoring, PastPrev, BuilderPC, Early
<1>7. ASSUME NEW a \in Builders \ {b} PROVE Descends(a)'
  BY <1>1, <1>3, <1>4, <1>5, <1>6, <1>7, SMTT(60) DEF Lineage, Descends,
     FirstIsFirst, Ambiguous, Restoring, FencedPC, BuilderPC, Recovering
<1>8. Descends(b)'
  BY <1>1, <1>2, <1>3, SMTT(60) DEF Lineage, Descends, FirstIsFirst, Ambiguous,
     Restoring, FencedPC, BuilderPC, Recovering
<1>9. FirstIsFirst'
  BY <1>1, <1>3 DEF Lineage, FirstIsFirst
<1> QED
  BY <1>7, <1>8, <1>9 DEF Lineage, FirstIsFirst

\* publication_recovery_state, and what the recovery does next.
LEMMA DecideLineage ==
  ASSUME TypeOK, RecoveredWithin, NameInv, Alone, ActiveRow, Looks, Lineage,
         NEW b \in Builders, RecoverDecide(b)
  PROVE  Lineage'
<1>1. /\ pc[b] = "recDecide" /\ UNCHANGED <<alias, audit>>
      /\ \A a \in Builders \ {b} :
           /\ pc'[a] = pc[a] /\ coll'[a] = coll[a] /\ prev'[a] = prev[a]
           /\ prevPub'[a] = prevPub[a] /\ tries'[a] = tries[a]
           /\ session'[a] = session[a]
  BY SMTT(60) DEF RecoverDecide, RecoverAgain, Finish, Leave, TypeOK, Processes,
     Goto, Look, fence, local, targets, previous, loops, stores
<1>2. \/ pc'[b] = "idle" /\ session'[b] = "none"
      \/ /\ UNCHANGED <<coll, prev, prevPub, tries, session>>
         /\ \/ pc'[b] = "restoreRead" /\ live[b] = coll[b] /\ Active # coll[b]
            \/ pc'[b] = "recAudit" /\ live[b] = prev[b]
            \/ pc'[b] = "recExit" /\ session[b] # "recovered"
      \/ /\ UNCHANGED <<coll, prev, prevPub>>
         /\ pc'[b] = "recAcquire" /\ tries'[b] > 0 /\ session'[b] = "none"
  BY <1>1, SMTT(60) DEF RecoverDecide, CommittedAfterAll, RecoverAgain, Finish,
     Leave, TypeOK, Processes, RecoveredWithin,
     Goto, Look, fence, local, targets, previous, loops, stores
<1>3. Active' = Active /\ alias = live[b] /\ coll[b] \in Collections
      /\ tries[b] > 0 /\ prev[b] # coll[b] /\ session[b] # "pending"
  BY <1>1, NoneIsFresh DEF Active, NameInv, OneOwner, OwnerStatus, Looks,
     BuilderLook, TypeOK,
     Processes, Opt, RecoveryPC, Recovering, Lineage, Descends, PastPrev, BuilderPC, Early
<1>4. ASSUME NEW a \in Builders \ {b} PROVE Descends(a)'
  BY <1>1, <1>3, SMTT(60) DEF Lineage, Descends, FirstIsFirst, Ambiguous, Recovering
<1>5. Descends(b)'
  BY <1>1, <1>2, <1>3, SMTT(60) DEF Lineage, Descends, FirstIsFirst, Ambiguous,
     Restoring, Recovering, PastPrev,
     BuilderPC, Early
<1>6. FirstIsFirst'
  BY <1>1, <1>3 DEF Lineage, FirstIsFirst
<1> QED
  BY <1>4, <1>5, <1>6 DEF Lineage, FirstIsFirst

\* recover_publication_activation.
LEMMA AuditLineage ==
  ASSUME TypeOK, RecoveredWithin, NameInv, Alone, ActiveRow, Looks, Lineage,
         NEW b \in Builders, RecoverAudit(b)
  PROVE  Lineage'
<1>1. /\ pc[b] = "recAudit" /\ pc'[b] = "recExit" /\ UNCHANGED <<alias, audit>>
      /\ UNCHANGED <<coll, prev, prevPub, tries>>
      /\ \A a \in Builders \ {b} : pc'[a] = pc[a] /\ session'[a] = session[a]
      /\ session'[b] = session[b] \/ session'[b] = "recovered"
      /\ session'[b] = "recovered" => Recoverable(b)
  BY SMTT(60) DEF RecoverAudit, TypeOK, Processes, RecoveredWithin,
     Goto, fence, local, targets, previous, loops, stores
<1>2. /\ Active' = Active /\ alias = prev[b] /\ prev[b] = prevPub[b]
      /\ coll[b] \in Collections /\ Active # coll[b]
      /\ tries[b] > 0 /\ prev[b] # coll[b] /\ session[b] # "pending"
  BY <1>1, NoneIsFresh DEF Active, NameInv, OneOwner, OwnerStatus, Looks,
     BuilderLook, TypeOK,
     Processes, Opt, RecoveryPC, Recovering, Lineage, Descends, PastPrev, BuilderPC, Early
<1>3. prev[b] \in Opt
  BY DEF TypeOK, Processes
<1>4. ASSUME Recoverable(b)
      PROVE  Active = prevPub[b] /\ audit[coll[b]] \in {"validated", "failed"}
  <2>1. audit[coll[b]] \in {"validated", "failed"}
    BY <1>2, <1>4 DEF Recoverable, ActiveRow
  <2>2. CASE Active = None /\ prevPub[b] # None
    BY <1>2, <1>3, <1>4, <2>2 DEF Recoverable, Lineage, FirstIsFirst, ActiveRow, Opt
  <2> QED
    BY <1>2, <1>4, <2>1, <2>2 DEF Recoverable
<1>5. ASSUME NEW a \in Builders \ {b} PROVE Descends(a)'
  BY <1>1, <1>2, SMTT(60) DEF Lineage, Descends, FirstIsFirst, Ambiguous, Recovering
<1>6. Descends(b)'
  BY <1>1, <1>2, <1>4, SMTT(60) DEF Lineage, Descends, FirstIsFirst, Ambiguous,
     Restoring, Recovering, PastPrev,
     BuilderPC, Early
<1>7. FirstIsFirst'
  BY <1>1, <1>2 DEF Lineage, FirstIsFirst
<1> QED
  BY <1>5, <1>6, <1>7 DEF Lineage, FirstIsFirst
\* The steps of a build keep the lineage.
LEMMA BuildLineage ==
  ASSUME TypeOK, RecoveredWithin, NameInv, Alone, ActiveRow, ActiveRow', Looks, Lineage,
         NEW b \in Builders, Build(b)
  PROVE  Lineage'
<1> USE NoneIsFresh, ProcessesDisjoint
    DEF Looks, BuilderLook, Lineage, Descends, FirstIsFirst, Ambiguous,
        Restoring, ActiveRow, Alone, Inside,
    NameInv, OneOwner, OwnerStatus, NamesFormed, Past, Formed, Early,
    Switching, RecoveryPC, BeforeCommit, Recovering,
        FencedPC, BuilderPC, MaintainerPC, PastPrev, Enter, Leave, TypeOK,
        Processes, Opt, stores, fence, targets, previous, loops, local, Goto, Look
<1>1. CASE ReconcileAlias(b)
  BY <1>1, SMTT(60) DEF ReconcileAlias
<1>2. CASE ReconcileAudit(b)
  BY <1>2, SMTT(60) DEF ReconcileAudit
<1>3. CASE ResolvePrevious(b)
  BY <1>3, SMTT(60) DEF ResolvePrevious
<1>4. CASE CreateCollection(b)
  BY <1>4, SMTT(60) DEF CreateCollection
<1>5. CASE FillCollection(b)
  BY <1>5, SMTT(60) DEF FillCollection
<1>6. CASE ValidateCollection(b)
  BY <1>6, SMTT(60) DEF ValidateCollection, CountMatches
<1>7. CASE MarkValidated(b)
  <2>1. Active' = Active
    BY <1>7, SMTT(60) DEF MarkValidated, Activates
  <2>2. FirstIsFirst'
    BY <1>7, <2>1, SMTT(60) DEF MarkValidated, Activates
  <2>3. Descends(b)'
    BY <1>7, <2>1, SMTT(60) DEF MarkValidated, Activates
  <2>4. ASSUME NEW a \in Builders \ {b} PROVE Descends(a)'
    BY <1>7, <2>1, <2>4, SMTT(60) DEF MarkValidated, Activates
  <2> QED
    BY <2>2, <2>3, <2>4
<1>8. CASE SwitchAlias(b)
  BY <1>8, SwitchLineage
<1>9. CASE MarkActive(b)
  BY <1>9, SMTT(60) DEF MarkActive
<1>10. CASE VerifyActivation(b)
  BY <1>10, SMTT(60) DEF VerifyActivation
<1>11. CASE CommitFence(b)
  BY <1>11, SMTT(60) DEF RecoveredWithin, CommitFence, Activates, Committed,
    Activated, Recovered, Finish
<1>12. CASE RestoreRead(b)
  BY <1>12, SMTT(60) DEF RecoveredWithin, RestoreRead, Restored, NotRestored
<1>13. CASE RestoreWrite(b)
  BY <1>13, SMTT(60) DEF RestoreWrite, PointAlias
<1>14. CASE RestoreVerify(b)
  BY <1>14, SMTT(60) DEF RecoveredWithin, RestoreVerify, Restored, NotRestored,
    RestoreAgain
<1>15. CASE CleanupCheck(b)
  BY <1>15, SMTT(60) DEF CleanupCheck, AfterCleanup, Referenced
<1>16. CASE CleanupDelete(b)
  BY <1>16, SMTT(60) DEF CleanupDelete, AfterCleanup
<1>17. CASE RollbackFence(b)
  BY <1>17, SMTT(60) DEF RollbackFence
<1>18. CASE MarkFailed(b)
  BY <1>18, SMTT(60) DEF MarkFailed, Finish
<1> QED
  BY <1>1, <1>2, <1>3, <1>4, <1>5, <1>6, <1>7, <1>8, <1>9, <1>10, <1>11, <1>12,
    <1>13, <1>14, <1>15, <1>16, <1>17, <1>18 DEF Build

\* The steps of a recovery keep the lineage.
LEMMA RecoverLineage ==
  ASSUME TypeOK, RecoveredWithin, NameInv, Alone, ActiveRow, ActiveRow', Looks, Lineage,
         NEW b \in Builders, Recover(b)
  PROVE  Lineage'
<1> USE NoneIsFresh, ProcessesDisjoint
    DEF Looks, BuilderLook, Lineage, Descends, FirstIsFirst, Ambiguous,
        Restoring, ActiveRow, Alone, Inside,
    NameInv, OneOwner, OwnerStatus, NamesFormed, Past, Formed, Early,
    Switching, RecoveryPC, BeforeCommit, Recovering,
        FencedPC, BuilderPC, MaintainerPC, PastPrev, Enter, Leave, TypeOK,
        Processes, Opt, stores, fence, targets, previous, loops, local, Goto, Look
<1>1. CASE RecoverReadAlias(b)
  BY <1>1, SMTT(60) DEF RecoverReadAlias, RecoverAgain, Finish
<1>2. CASE RecoverDecide(b)
  BY <1>2, DecideLineage
<1>3. CASE RecoverAudit(b)
  BY <1>3, AuditLineage
<1>4. CASE RecoverExit(b)
  BY <1>4, SMTT(60) DEF RecoverExit, RecoverAgain, Committed, Activated,
    Recovered, Finish
<1>5. CASE CleanupRelease(b)
  BY <1>5, SMTT(60) DEF CleanupRelease, Finish
<1> QED
  BY <1>1, <1>2, <1>3, <1>4, <1>5 DEF Recover

\* Source maintenance keeps the lineage.
LEMMA MaintainLineage ==
  ASSUME TypeOK, RecoveredWithin, NameInv, Alone, ActiveRow, ActiveRow', Looks, Lineage,
         NEW m \in Maintainers, MaintainStart(m) \/ MaintainStep(m)
  PROVE  Lineage'
<1> USE NoneIsFresh, ProcessesDisjoint
    DEF Looks, BuilderLook, Lineage, Descends, FirstIsFirst, Ambiguous,
        Restoring, ActiveRow, Alone, Inside,
    NameInv, OneOwner, OwnerStatus, NamesFormed, Past, Formed, Early,
    Switching, RecoveryPC, BeforeCommit, Recovering,
        FencedPC, BuilderPC, MaintainerPC, PastPrev, Enter, Leave, TypeOK,
        Processes, Opt, stores, fence, targets, previous, loops, local, Goto, Look
<1>1. CASE MaintainStart(m)
  BY <1>1, SMTT(60) DEF MaintainStart, Enter
<1>2. CASE MaintainFirstRead(m)
  BY <1>2, SMTT(60) DEF MaintainFirstRead
<1>3. CASE MaintainSecondRead(m)
  BY <1>3, SMTT(60) DEF MaintainSecondRead, LivePublication
<1>4. CASE MaintainWrite(m)
  BY <1>4, SMTT(60) DEF MaintainWrite
<1>5. CASE MaintainRequire(m)
  BY <1>5, SMTT(60) DEF MaintainRequire
<1>6. CASE MaintainFinalize(m)
  BY <1>6, SMTT(60) DEF MaintainFinalize, Finish
<1>7. CASE MaintainRaise(m)
  BY <1>7, SMTT(60) DEF MaintainRaise, Finish
<1> QED
  BY <1>1, <1>2, <1>3, <1>4, <1>5, <1>6, <1>7 DEF MaintainStep

\* Queries keep the lineage.
LEMMA ReaderLineage ==
  ASSUME TypeOK, RecoveredWithin, NameInv, Alone, ActiveRow, ActiveRow', Looks, Lineage,
         NEW r \in Readers, ReadAudit(r) \/ ReaderStep(r)
  PROVE  Lineage'
<1> USE NoneIsFresh, ProcessesDisjoint
    DEF Looks, BuilderLook, Lineage, Descends, FirstIsFirst, Ambiguous,
        Restoring, ActiveRow, Alone, Inside,
    NameInv, OneOwner, OwnerStatus, NamesFormed, Past, Formed, Early,
    Switching, RecoveryPC, BeforeCommit, Recovering,
        FencedPC, BuilderPC, MaintainerPC, PastPrev, Enter, Leave, TypeOK,
        Processes, Opt, stores, fence, targets, previous, loops, local, Goto, Look
<1>1. CASE ReadAudit(r)
  BY <1>1, SMTT(60) DEF ReadAudit
<1>2. CASE ReadAlias(r)
  BY <1>2, SMTT(60) DEF ReadAlias, Finish
<1>3. CASE Search(r)
  BY <1>3, SMTT(60) DEF Search, Finish
<1> QED
  BY <1>1, <1>2, <1>3 DEF ReaderStep

\* Kills and lost sessions keep the lineage.
LEMMA EnvironmentLineage ==
  ASSUME TypeOK, RecoveredWithin, NameInv, Alone, ActiveRow, ActiveRow', Looks, Lineage,
         NEW p \in Processes, Crash(p) \/ LoseSession(p)
  PROVE  Lineage'
<1> USE NoneIsFresh, ProcessesDisjoint
    DEF Looks, BuilderLook, Lineage, Descends, FirstIsFirst, Ambiguous,
        Restoring, ActiveRow, Alone, Inside,
    NameInv, OneOwner, OwnerStatus, NamesFormed, Past, Formed, Early,
    Switching, RecoveryPC, BeforeCommit, Recovering,
        FencedPC, BuilderPC, MaintainerPC, PastPrev, Enter, Leave, TypeOK,
        Processes, Opt, stores, fence, targets, previous, loops, local, Goto, Look
<1>1. CASE Crash(p)
  BY <1>1, SMTT(60) DEF Crash, Finish
<1>2. CASE LoseSession(p)
  BY <1>2, SMTT(60) DEF LoseSession
<1> QED
  BY <1>1, <1>2 DEF Crash

\* The first publication has no predecessor.
LEMMA InitLineage == Init => Lineage
  BY DEF Init, Lineage, Descends, FirstIsFirst, PastPrev, BuilderPC, Restoring,
     Ambiguous, Processes

\* A step that changes nothing keeps the lineage.
LEMMA StutterLineage ==
  ASSUME Lineage, UNCHANGED vars
  PROVE  Lineage'
<1>1. Active' = Active
  BY DEF vars, stores, Active
<1> QED
  BY <1>1 DEF vars, stores, fence, local, targets, previous, loops, Lineage,
     Descends,
     FirstIsFirst, Recovering

\* Every step keeps the lineage while no session is lost.
LEMMA LineageStep ==
  ASSUME ServedInv, ServedInv', lost = 0, Lineage, [Next]_vars
  PROVE  Lineage'
<1>1. Alone /\ Looks
  BY FenceIsExclusive DEF ServedInv, HeldInv
<1>2. TypeOK /\ RecoveredWithin /\ NameInv /\ OneActive /\ OneActive'
  BY DEF ServedInv, FenceInv
<1>3. ActiveRow
  BY <1>2, ActiveIsOneRow
<1>4. ActiveRow'
  BY <1>2, ActiveRowAfter
<1> QED
  BY <1>1, <1>2, <1>3, <1>4, StutterLineage, EntryLineage, BuildLineage,
     RecoverLineage, MaintainLineage, ReaderLineage, EnvironmentLineage
     DEF Next, BuilderStep

\* No generation becomes current, past or discarded.
SameGenerations ==
    \A c \in Collections, s \in {"active", "retired", "failed"} :
        audit'[c] = s <=> audit[c] = s

\* What the steps of the abstract index are made of.
AbstractStep == Abstract!Next \/ UNCHANGED Abstract!vars

\* With the same generations on record, moving the alias is an outage, its end,
\* or nothing.
LEMMA AliasMoves ==
  ASSUME ActiveRow, ActiveRow', SameGenerations
  PROVE  AbstractStep
<1>1. Active' = Active
  BY NoneIsFresh DEF ActiveRow, SameGenerations, Opt
<1>2. /\ {c \in Collections : audit'[c] = "retired"} =
            {c \in Collections : audit[c] = "retired"}
      /\ {c \in Collections : audit'[c] = "failed"} =
            {c \in Collections : audit[c] = "failed"}
  BY DEF SameGenerations
<1>3. CASE Served' = Served
  BY <1>1, <1>2, <1>3 DEF AbstractStep, Abstract!vars
<1>4. CASE Served' # Served
  <2>1. Served' \in {None, Active} /\ Served \in {None, Active}
    BY <1>1 DEF Served
  <2> QED
    BY <1>1, <1>2, <1>4, <2>1 DEF AbstractStep, Abstract!Next, Abstract!Interrupt,
       Abstract!Resume
<1> QED
  BY <1>3, <1>4

\* A row that was neither served nor discarded fails: its generation is
\* discarded.
LEMMA FailureDiscards ==
  ASSUME ActiveRow, ActiveRow', UNCHANGED alias, NEW c \in Collections,
         audit[c] \notin {"active", "retired", "failed"},
         audit'[c] = "failed",
         \A d \in Collections \ {c} : audit'[d] = audit[d]
  PROVE  AbstractStep
<1>1. Active' = Active /\ Active # c
  BY NoneIsFresh DEF ActiveRow, Opt
<1>2. Served' = Served
  BY <1>1 DEF Served
<1>3. {d \in Collections : audit'[d] = "retired"} =
          {d \in Collections : audit[d] = "retired"}
  OBVIOUS
<1>4. {d \in Collections : audit'[d] = "failed"} =
          {d \in Collections : audit[d] = "failed"} \cup {c}
  OBVIOUS
<1> QED
  BY <1>1, <1>2, <1>3, <1>4 DEF AbstractStep, Abstract!Next, Abstract!Discard

\* The commit of an activation: the next generation takes over in one step.
LEMMA CommitAdvances ==
  ASSUME ActiveRow, ActiveRow', UNCHANGED alias, NEW c \in Collections,
         alias = c, audit[c] = "validated", audit' = Activated(c)
  PROVE  AbstractStep
<1>1. Active # c /\ Active' = c
  BY NoneIsFresh DEF ActiveRow, Opt, Activated
<1>2. Served = None /\ Served' = c
  BY <1>1 DEF Served
<1>3. {d \in Collections : audit'[d] = "retired"} =
          {d \in Collections : audit[d] = "retired"} \cup ({Active} \ {None})
  BY <1>1, NoneIsFresh DEF ActiveRow, Opt, Activated
<1>4. {d \in Collections : audit'[d] = "failed"} =
          {d \in Collections : audit[d] = "failed"}
  BY DEF Activated
<1>5. c \notin {d \in Collections : audit[d] = "retired"}
         \cup {d \in Collections : audit[d] = "failed"} \cup {Active}
  BY <1>1
<1> QED
  BY <1>1, <1>2, <1>3, <1>4, <1>5 DEF AbstractStep, Abstract!Next, Abstract!Advance

\* What an idle builder does, and what it does to take the lock, leaves the
\* generations alone.
LEMMA EntryGenerations ==
  ASSUME TypeOK, NEW b \in Builders, Start(b) \/ TakeLock(b) \/ Bootstrap(b)
  PROVE  SameGenerations
  BY SMTT(60) DEF SameGenerations, TypeOK, stores, Start, TakeLock, Bootstrap,
     StartBuild, BootstrapReadAudit, BootstrapSkipOrRaise, BootstrapBuild, InsertRow,
     Acquire, RecoverAcquire, CleanupAcquire

\* So do the steps of a build but its commit and its failed mark.
LEMMA BuildGenerations ==
  ASSUME TypeOK, NEW b \in Builders, Build(b), ~CommitFence(b), ~MarkFailed(b)
  PROVE  SameGenerations
<1>1. CASE MarkValidated(b)
  BY <1>1 DEF MarkValidated, SameGenerations, TypeOK
<1>2. CASE ~MarkValidated(b)
  <2>1. audit' = audit
    BY <1>2 DEF Build, ReconcileAlias, ReconcileAudit, ResolvePrevious,
       CreateCollection, FillCollection, ValidateCollection, SwitchAlias, MarkActive,
       VerifyActivation, RestoreRead, RestoreWrite, RestoreVerify, CleanupCheck,
       CleanupDelete, RollbackFence, stores
  <2> QED
    BY <2>1 DEF SameGenerations
<1> QED
  BY <1>1, <1>2

\* The commit of a build.
LEMMA CommitRefines ==
  ASSUME ServedInv, ActiveRow, ActiveRow', Lineage, NEW b \in Builders, CommitFence(b)
  PROVE  AbstractStep
<1>1. /\ pc[b] = "commit" /\ UNCHANGED alias
      /\ audit' = audit \/ audit' = Committed(b)
  BY DEF CommitFence
<1>2. CASE audit' = audit
  BY <1>2, AliasMoves DEF SameGenerations
<1>3. CASE session[b] = "pending" /\ audit' = Activated(coll[b])
  <2>1. alias = coll[b] /\ audit[coll[b]] = "validated" /\ coll[b] \in Collections
    BY <1>1, <1>3, NoneIsFresh DEF Lineage, Descends, ServedInv, NameInv,
       OneOwner, OwnerStatus,
       Switching, TypeOK, Processes, Opt
  <2> QED
    BY <1>1, <1>3, <2>1, CommitAdvances
<1>4. session[b] # "recovered"
  BY <1>1 DEF ServedInv, FenceInv, RecoveredWithin
<1> QED
  BY <1>1, <1>2, <1>3, <1>4 DEF Committed

\* The failed mark.
LEMMA MarkFailedRefines ==
  ASSUME ServedInv, ActiveRow, ActiveRow', NEW b \in Builders, MarkFailed(b)
  PROVE  AbstractStep
<1>1. CASE audit' = audit
  BY <1>1, AliasMoves DEF SameGenerations
<1>2. CASE audit' # audit
  <2>1. /\ pc[b] = "markFailed" /\ UNCHANGED alias
        /\ audit[coll[b]] \in {"building", "validated"}
        /\ audit' = [audit EXCEPT ![coll[b]] = "failed"]
    BY <1>2 DEF MarkFailed
  <2>2. coll[b] \in Collections /\ audit \in [Collections -> Status]
    BY <2>1, NoneIsFresh DEF ServedInv, NameInv, OneOwner, TypeOK, Processes, Opt
  <2> QED
    BY <2>1, <2>2, FailureDiscards
<1> QED
  BY <1>1, <1>2

\* The commit of a recovery: it discards what it tried to publish.
LEMMA RecoverExitRefines ==
  ASSUME ServedInv, ActiveRow, ActiveRow', Lineage, NEW b \in Builders, RecoverExit(b)
  PROVE  AbstractStep
<1>1. /\ pc[b] = "recExit" /\ UNCHANGED alias
      /\ audit' = audit \/ audit' = Committed(b)
  BY DEF RecoverExit
<1>2. CASE audit' = audit
  BY <1>2, AliasMoves DEF SameGenerations
<1>3. CASE session[b] = "recovered" /\ audit' = Recovered(coll[b], prevPub[b])
  <2>1. Active = prevPub[b] /\ audit[coll[b]] \in {"validated", "failed"}
    BY <1>1, <1>3 DEF Lineage, Descends
  <2>2. coll[b] \in Collections
    BY <1>1, NoneIsFresh DEF ServedInv, NameInv, OneOwner, TypeOK, Processes, Opt
  <2>3. \A d \in Collections \ {coll[b]} : audit'[d] = audit[d]
    BY <1>3, <2>1 DEF Recovered, ActiveRow
  <2>4. audit'[coll[b]] = "failed"
    BY <1>3, <2>2 DEF Recovered
  <2>5. CASE audit[coll[b]] = "validated"
    BY <1>1, <2>2, <2>3, <2>4, <2>5, FailureDiscards
  <2>6. CASE audit[coll[b]] = "failed"
    BY <2>2, <2>3, <2>4, <2>6, AliasMoves DEF SameGenerations
  <2> QED
    BY <2>1, <2>5, <2>6
<1>4. session[b] # "pending"
  BY <1>1 DEF ServedInv, NameInv, OwnerStatus, RecoveryPC
<1> QED
  BY <1>1, <1>2, <1>3, <1>4 DEF Committed

\* The other steps leave the generations alone.
LEMMA RecoverGenerations ==
  ASSUME NEW b \in Builders, Recover(b), ~RecoverExit(b)
  PROVE  SameGenerations
  BY DEF Recover, RecoverReadAlias, RecoverDecide, RecoverAudit, CleanupRelease,
     stores, SameGenerations

LEMMA MaintainGenerations ==
  ASSUME NEW m \in Maintainers, MaintainStart(m) \/ MaintainStep(m)
  PROVE  SameGenerations
  BY DEF MaintainStart, MaintainStep, MaintainFirstRead, MaintainSecondRead,
     MaintainWrite, MaintainRequire, MaintainFinalize, MaintainRaise, stores,
     SameGenerations

LEMMA ReaderGenerations ==
  ASSUME NEW r \in Readers, ReadAudit(r) \/ ReaderStep(r)
  PROVE  SameGenerations
  BY DEF ReadAudit, ReaderStep, ReadAlias, Search, stores, SameGenerations

LEMMA EnvironmentGenerations ==
  ASSUME NEW p \in Processes, Crash(p) \/ LoseSession(p)
  PROVE  SameGenerations
  BY DEF Crash, LoseSession, stores, SameGenerations

\* Every step of the protocol is a step of the abstract index or none.
LEMMA RefinementStep ==
  ASSUME ServedInv, ServedInv', Lineage, [Next]_vars
  PROVE  AbstractStep
<1>1. TypeOK /\ OneActive /\ OneActive'
  BY DEF ServedInv, FenceInv
<1>2. ActiveRow
  BY <1>1, ActiveIsOneRow
<1>3. ActiveRow'
  BY <1>1, ActiveRowAfter
<1>4. CASE SameGenerations
  BY <1>2, <1>3, <1>4, AliasMoves
<1>5. CASE UNCHANGED vars
  BY <1>4, <1>5 DEF vars, stores, SameGenerations
<1>6. ASSUME NEW b \in Builders, Build(b) \/ Recover(b) PROVE AbstractStep
  BY <1>1, <1>2, <1>3, <1>4, <1>6, BuildGenerations, RecoverGenerations,
     CommitRefines, MarkFailedRefines, RecoverExitRefines
<1> QED
  BY <1>1, <1>4, <1>5, <1>6, EntryGenerations, MaintainGenerations,
     ReaderGenerations, EnvironmentGenerations DEF Next, BuilderStep

\* Alias, audit rows, fence and recovery together are one atomic switch of
\* generations with an outage around it, whatever calls fail and whoever is
\* killed, in every behaviour in which PostgreSQL drops no session that holds
\* the fence.
THEOREM ImplementsServedIndex == Spec /\ [](lost = 0) => RefinesServedIndex
<1>1. Init => Abstract!Init
  <2>1. Init => Active = None
    BY DEF Init, Active
  <2> QED
    BY <2>1 DEF Init, Abstract!Init, Served
<1>2. ServedInv /\ ServedInv' /\ lost = 0 /\ Lineage /\ [Next]_vars
         => Lineage' /\ [Abstract!Next]_(Abstract!vars)
  BY LineageStep, RefinementStep DEF AbstractStep
<1> QED
  BY ServedInvariant, InitLineage, <1>1, <1>2, PTL
     DEF Spec, RefinesServedIndex, Abstract!Spec

-----------------------------------------------------------------------------
(* Two failed calls are absorbed.                                          *)
(*                                                                         *)
(* Alias and audit are apart only while some publisher is between the two  *)
(* halves of its switch, or is undoing one: Answerable.  It may leave them *)
(* apart only when both attempts of the restoration, or both attempts of   *)
(* the recovery, failed.  Spent counts what it took to get there: each     *)
(* attempt that came to nothing cost a failed call of its own, on top of   *)
(* the one that started the restoration or made the commit ambiguous.      *)

\* In the middle of a switch, or of undoing one.
Midway == {"markActive", "verify", "commit", "recAcquire", "recLive", "recDecide"}
            \cup Restoring

\* From the look at alias and audit until the switch nothing is apart.
Steady == {"resolvePrev", "create", "fill", "validate", "markValidated", "switch"}
Placed(b) ==
    /\ pc[b] \in Steady => alias = Active
    /\ pc[b] \in {"switch", "markActive", "verify"} => Activates(b)
    /\ pc[b] \in {"markActive", "verify"} => alias = coll[b]
    /\ pc[b] = "verify" => session[b] = "pending"
    /\ pc[b] = "commit" =>
         IF session[b] = "pending" THEN Activates(b) ELSE alias = Active
    /\ pc[b] \in BeforeCommit \cup {"recAcquire", "recLive", "recDecide"}
         => attempt[b] = 1

Answerable ==
    alias # Active => \E b \in Builders : alias = coll[b] /\ pc[b] \in Midway

\* The failed calls that lie behind a builder whose collection the alias names
\* although it is not the active one.
Started(b) == IF tries[b] = 2 THEN 2 ELSE 1
Spent(b) ==
    alias = coll[b] /\ Active # coll[b] =>
        /\ pc[b] \in {"recAcquire", "recLive", "recDecide"} => faults >= tries[b]
        /\ pc[b] \in {"restoreRead", "restoreWrite"}
             => faults >= Started(b) + attempt[b] - 1
        /\ pc[b] = "restoreVerify" => faults >= Started(b) + attempt[b]

Absorbed ==
    /\ \A b \in Builders : Placed(b) /\ Spent(b)
    /\ Answerable

\* While no process is killed and no session lost, and no more than two calls
\* have failed.
Mild == crashes = 0 /\ lost = 0 /\ faults <= 2

\* The variables of the builders other than b.
OthersKeep(b) ==
    /\ \A a \in Builders \ {b} :
         /\ pc'[a] = pc[a] /\ coll'[a] = coll[a] /\ session'[a] = session[a]
         /\ task'[a] = task[a] /\ attempt'[a] = attempt[a] /\ tries'[a] = tries[a]
    /\ faults' \in Nat /\ faults' >= faults

\* A builder that was answerable still is.
StillAnswers(b) ==
    alias = coll[b] /\ alias # Active /\ pc[b] \in Midway =>
        coll'[b] = coll[b] /\ pc'[b] \in Midway

\* Alias and active row stay: only the builder that moved needs a look.
LEMMA AliasStays ==
  ASSUME TypeOK, Absorbed, NEW b \in Builders, OthersKeep(b), alias' = alias,
         Active' = Active,
         Placed(b)', Spent(b)', StillAnswers(b)
  PROVE  Absorbed'
<1>1. ASSUME NEW a \in Builders \ {b} PROVE Placed(a)' /\ Spent(a)'
  <2>1. Placed(a) /\ Spent(a)
    BY DEF Absorbed
  <2>2. Placed(a)'
    BY <2>1 DEF OthersKeep, Placed, Activates
  <2>3. a \in Processes /\ attempt[a] \in 1..2 /\ tries[a] \in 0..2 /\ faults \in Nat
    BY DEF TypeOK, Processes
  <2>4. Spent(a)'
    BY <2>1, <2>3, SMTT(30) DEF OthersKeep, Spent, Started
  <2> QED
    BY <2>2, <2>4
<1>2. Answerable'
  <2> SUFFICES ASSUME alias' # Active'
               PROVE  \E a \in Builders : alias' = coll'[a] /\ pc'[a] \in Midway
    BY DEF Answerable
  <2>1. PICK a \in Builders : alias = coll[a] /\ pc[a] \in Midway
    BY DEF Absorbed, Answerable
  <2>2. coll'[a] = coll[a] /\ pc'[a] \in Midway
    BY <2>1 DEF OthersKeep, StillAnswers
  <2> QED
    BY <2>1, <2>2
<1> QED
  BY <1>1, <1>2 DEF Absorbed

\* Alias and active row agree afterwards: then nobody else has to answer.
LEMMA AliasAgrees ==
  ASSUME Absorbed, NEW b \in Builders, OthersKeep(b), alias' = Active',
         \A a \in Builders \ {b} : pc[a] \notin FencedPC,
         Placed(b)'
  PROVE  Absorbed'
<1>1. ASSUME NEW a \in Builders \ {b} PROVE Placed(a)'
  <2>1. Placed(a) /\ pc[a] \notin FencedPC
    BY DEF Absorbed
  <2> QED
    BY <2>1 DEF OthersKeep, Placed, Activates, FencedPC, BuilderPC, Steady
<1>2. ASSUME NEW a \in Builders PROVE Spent(a)'
  BY DEF Spent
<1>3. Answerable'
  BY DEF Answerable
<1> QED
  BY <1>1, <1>2, <1>3 DEF Absorbed

\* A builder's step changes nothing of another builder, and failures add up.
LEMMA EntryKeepsOthers ==
  ASSUME TypeOK, NEW b \in Builders, Start(b) \/ TakeLock(b) \/ Bootstrap(b)
  PROVE  OthersKeep(b) /\ alias' = alias /\ crashes' = crashes /\ lost' = lost
<1> USE DEF OthersKeep, TypeOK, Processes, fence, targets, previous, loops, local,
        stores, budget, Goto, Look, Sound, Fault, Enter, Leave
<1>1. CASE StartBuild(b)
  BY <1>1 DEF StartBuild, InsertRow
<1>2. CASE BootstrapReadAudit(b)
  BY <1>2 DEF BootstrapReadAudit
<1>3. CASE BootstrapSkipOrRaise(b)
  BY <1>3 DEF BootstrapSkipOrRaise, Finish
<1>4. CASE BootstrapBuild(b)
  BY <1>4 DEF BootstrapBuild, InsertRow
<1>5. CASE Acquire(b)
  BY <1>5 DEF Acquire, NotAcquired
<1>6. CASE RecoverAcquire(b)
  BY <1>6, SMTT(60) DEF RecoverAcquire, RecoverAgain, Finish
<1>7. CASE CleanupAcquire(b)
  BY <1>7, SMTT(60) DEF CleanupAcquire, Finish
<1> QED
  BY <1>1, <1>2, <1>3, <1>4, <1>5, <1>6, <1>7 DEF Start, TakeLock, Bootstrap

\* Nor does a step of a build.
LEMMA BuildKeepsOthers ==
  ASSUME TypeOK, NEW b \in Builders, Build(b)
  PROVE  OthersKeep(b) /\ crashes' = crashes /\ lost' = lost
<1> USE DEF OthersKeep, TypeOK, Processes, fence, targets, previous, loops, local,
        stores, budget, Goto, Look, Sound, Fault, Leave, FenceFails
<1>1. CASE ReconcileAlias(b)
  BY <1>1 DEF ReconcileAlias
<1>2. CASE ReconcileAudit(b)
  BY <1>2 DEF ReconcileAudit
<1>3. CASE ResolvePrevious(b)
  BY <1>3 DEF ResolvePrevious
<1>4. CASE CreateCollection(b)
  BY <1>4 DEF CreateCollection
<1>5. CASE FillCollection(b)
  BY <1>5 DEF FillCollection
<1>6. CASE ValidateCollection(b)
  BY <1>6 DEF ValidateCollection
<1>7. CASE MarkValidated(b)
  BY <1>7 DEF MarkValidated
<1>8. CASE SwitchAlias(b)
  BY <1>8 DEF SwitchAlias
<1>9. CASE MarkActive(b)
  BY <1>9 DEF MarkActive
<1>10. CASE VerifyActivation(b)
  BY <1>10 DEF VerifyActivation
<1>11. CASE CommitFence(b)
  BY <1>11, SMTT(60) DEF CommitFence, Finish
<1>12. CASE RestoreRead(b)
  BY <1>12 DEF RestoreRead, Restored, NotRestored
<1>13. CASE RestoreWrite(b)
  BY <1>13 DEF RestoreWrite
<1>14. CASE RestoreVerify(b)
  BY <1>14, SMTT(60) DEF RestoreVerify, Restored, NotRestored, RestoreAgain
<1>15. CASE CleanupCheck(b)
  BY <1>15 DEF CleanupCheck, AfterCleanup
<1>16. CASE CleanupDelete(b)
  BY <1>16 DEF CleanupDelete, AfterCleanup
<1>17. CASE RollbackFence(b)
  BY <1>17 DEF RollbackFence
<1>18. CASE MarkFailed(b)
  BY <1>18 DEF MarkFailed, Finish
<1> QED
  BY <1>1, <1>2, <1>3, <1>4, <1>5, <1>6, <1>7, <1>8, <1>9, <1>10, <1>11, <1>12,
    <1>13, <1>14, <1>15, <1>16, <1>17, <1>18 DEF Build

\* Nor one of a recovery.
LEMMA RecoverKeepsOthers ==
  ASSUME TypeOK, NEW b \in Builders, Recover(b)
  PROVE  OthersKeep(b) /\ alias' = alias /\ crashes' = crashes /\ lost' = lost
<1> USE DEF OthersKeep, TypeOK, Processes, fence, targets, previous, loops, local,
        stores, budget, Goto, Look, Sound, Fault, Leave, FenceFails
<1>1. CASE RecoverReadAlias(b)
  BY <1>1, SMTT(60) DEF RecoverReadAlias, RecoverAgain, Finish
<1>2. CASE RecoverDecide(b)
  BY <1>2, SMTT(60) DEF RecoverDecide, RecoverAgain, Finish
<1>3. CASE RecoverAudit(b)
  BY <1>3 DEF RecoverAudit
<1>4. CASE RecoverExit(b)
  BY <1>4, SMTT(60) DEF RecoverExit, RecoverAgain, Finish
<1>5. CASE CleanupRelease(b)
  BY <1>5 DEF CleanupRelease, Finish
<1> QED
  BY <1>1, <1>2, <1>3, <1>4, <1>5 DEF Recover

\* What starts or takes the lock: nothing is apart on its account, but for a
\* recovery that could not take the lock.
LEMMA EntryAbsorbed ==
  ASSUME TypeOK, NameInv, ActiveRow, ActiveRow', Lineage, Absorbed, faults' <= 2,
         NEW b \in Builders, Start(b) \/ TakeLock(b) \/ Bootstrap(b)
  PROVE  Absorbed'
<1>1. OthersKeep(b) /\ alias' = alias
  BY EntryKeepsOthers
<1>2. Active' = Active
  BY NoneIsFresh, SMTT(60) DEF ActiveRow, Opt, Start, TakeLock, Bootstrap,
     StartBuild, BootstrapBuild,
     BootstrapReadAudit, BootstrapSkipOrRaise, InsertRow, Acquire, RecoverAcquire,
     CleanupAcquire, stores, TypeOK
<1>3. Placed(b) /\ Spent(b)
  BY DEF Absorbed
<1>4. /\ b \in Processes /\ attempt[b] \in 1..2 /\ tries[b] \in 0..2 /\ faults \in Nat
      /\ pc[b] = "recAcquire" => tries[b] > 0
  BY DEF TypeOK, Processes, NameInv, OwnerStatus, RecoveryPC, Recovering
<1>5. StillAnswers(b) /\ Placed(b)' /\ Spent(b)'
  <2> USE <1>1, <1>2, <1>3, <1>4 DEF StillAnswers, Placed, Spent, Started, Midway,
        Restoring, Steady, BeforeCommit, Early, Switching, TypeOK, Processes,
        stores, fence, targets, previous, loops, local, Goto, Look
  <2>1. CASE StartBuild(b)
    BY <2>1, SMTT(60) DEF StartBuild, InsertRow
  <2>2. CASE BootstrapReadAudit(b)
    BY <2>2, SMTT(60) DEF BootstrapReadAudit
  <2>3. CASE BootstrapSkipOrRaise(b)
    BY <2>3, SMTT(60) DEF BootstrapSkipOrRaise, Finish
  <2>4. CASE BootstrapBuild(b)
    BY <2>4, SMTT(60) DEF BootstrapBuild, InsertRow
  <2>5. CASE Acquire(b)
    BY <2>5, SMTT(60) DEF Acquire, NotAcquired, Enter
  <2>6. CASE RecoverAcquire(b)
    BY <2>6, faults' <= 2, SMTT(60) DEF RecoverAcquire, RecoverAgain, Finish, Enter,
       Fault, Sound, budget
  <2>7. CASE CleanupAcquire(b)
    BY <2>7, SMTT(60) DEF CleanupAcquire, Finish, Enter
  <2> QED
    BY <2>1, <2>2, <2>3, <2>4, <2>5, <2>6, <2>7 DEF Start, TakeLock, Bootstrap
<1> QED
  BY <1>1, <1>2, <1>5, AliasStays

\* Inside the fence the other builders are outside it.
LEMMA OthersOutside ==
  ASSUME Alone, NEW b \in Builders, pc[b] \in FencedPC
  PROVE  \A a \in Builders \ {b} : pc[a] \notin FencedPC
  BY DEF Alone, Inside, Processes

\* The steps of a build.
LEMMA BuildAbsorbed ==
  ASSUME TypeOK, RecoveredWithin, NameInv, Alone, ActiveRow, ActiveRow', Looks,
         Lineage,
         Absorbed, faults' <= 2, lost = 0, Fenced,
         NEW b \in Builders, Build(b)
  PROVE  Absorbed'
<1>1. OthersKeep(b)
  BY BuildKeepsOthers
<1>2. Placed(b) /\ Spent(b) /\ Descends(b)
  BY DEF Absorbed, Lineage
<1>3. /\ b \in Processes /\ attempt[b] \in 1..2 /\ tries[b] \in 0..2 /\ faults \in Nat
      /\ session[b] # "lost"
      /\ pc[b] \in RecoveryPC => tries[b] > 0
      /\ pc[b] \in BeforeCommit => tries[b] = 0
  BY DEF TypeOK, Processes, NameInv, OwnerStatus, Recovering, Fenced
<1>4. /\ pc[b] = "reconcileAudit" => live[b] = alias
      /\ pc[b] = "resolvePrev" => prevPub[b] = alias
  BY DEF Looks, BuilderLook
<1>5. pc[b] # "idle" /\ pc[b] # "bootAlias" =>
        /\ coll[b] \in Collections /\ prev[b] \in Opt
        /\ store \in [Collections -> {"absent", "partial", "complete"}]
  BY DEF NameInv, OneOwner, TypeOK, Processes, Opt
<1> DEFINE Quiet == alias' = alias /\ Active' = Active
<1>6. ASSUME Quiet, StillAnswers(b) /\ Placed(b)' /\ Spent(b)' PROVE Absorbed'
  BY <1>1, <1>6, AliasStays
<1>7. audit' = audit => Active' = Active
  BY DEF Active
<1> USE DEF StillAnswers, Placed, Spent, Started, Midway, Descends,
        Restoring, Steady, BeforeCommit, Early, Switching,
        stores, fence, targets, previous, loops, local, Goto, Look, Fault, Sound,
        budget
<1>8. CASE ReconcileAlias(b)
  <2>1. Quiet
    BY <1>7, <1>8 DEF ReconcileAlias
  <2> QED
    BY <1>2, <1>3, <1>6, <1>8, <2>1, SMTT(60) DEF ReconcileAlias, TypeOK
<1>9. CASE ReconcileAudit(b)
  <2>1. Quiet
    BY <1>7, <1>9 DEF ReconcileAudit
  <2> QED
    BY <1>2, <1>3, <1>4, <1>6, <1>9, <2>1, SMTT(60) DEF ReconcileAudit, TypeOK
<1>10. CASE ResolvePrevious(b)
  <2>1. Quiet
    BY <1>7, <1>10 DEF ResolvePrevious
  <2> QED
    BY <1>2, <1>3, <1>4, <1>6, <1>10, <2>1, SMTT(60) DEF ResolvePrevious, TypeOK
<1>11. CASE CreateCollection(b)
  <2>1. Quiet
    BY <1>7, <1>11 DEF CreateCollection
  <2> QED
    BY <1>2, <1>3, <1>6, <1>11, <2>1, SMTT(60) DEF CreateCollection, TypeOK
<1>12. CASE FillCollection(b)
  <2>1. Quiet
    BY <1>7, <1>12 DEF FillCollection
  <2> QED
    BY <1>2, <1>3, <1>6, <1>12, <2>1, SMTT(60) DEF FillCollection, TypeOK
<1>13. CASE ValidateCollection(b)
  <2>1. Quiet
    BY <1>7, <1>13 DEF ValidateCollection
  <2> QED
    BY <1>2, <1>3, <1>6, <1>13, <2>1, SMTT(60) DEF ValidateCollection, TypeOK
<1>14. CASE MarkValidated(b)
  <2>1. Quiet
    BY <1>5, <1>14, NoneIsFresh DEF MarkValidated, ActiveRow, Opt, TypeOK
  <2> QED
    BY <1>2, <1>3, <1>6, <1>14, <2>1, SMTT(60) DEF MarkValidated, TypeOK, Activates
<1>15. CASE SwitchAlias(b)
  <2>1. CASE alias' = alias
    BY <1>2, <1>3, <1>5, <1>6, <1>7, <1>15, <2>1, SMTT(60) DEF SwitchAlias,
       PointAlias, TypeOK,
       PastPrev, BuilderPC, Recovering, Activates
  <2>2. CASE alias' # alias
    <3>1. /\ alias' = coll[b] /\ Active' = Active /\ alias = Active
          /\ \/ pc'[b] = "markActive" /\ faults' = faults
             \/ pc'[b] = "restoreRead" /\ faults' = faults + 1
          /\ UNCHANGED <<coll, task, attempt, tries>>
      BY <1>2, <1>3, <1>7, <1>15, <2>2 DEF SwitchAlias, PointAlias, TypeOK
    <3>2. Placed(b)' /\ Spent(b)'
      BY <1>2, <1>3, <1>15, <3>1, SMTT(60) DEF Activates, SwitchAlias
    <3>3. ASSUME NEW a \in Builders \ {b} PROVE Placed(a)' /\ Spent(a)'
      <4>1. /\ Placed(a) /\ pc[a] \notin FencedPC /\ coll[a] # coll[b]
            /\ coll'[a] = coll[a] /\ pc'[a] = pc[a] /\ attempt'[a] = attempt[a]
        BY <1>1, <1>5, <1>15, OthersOutside, NoneIsFresh DEF Absorbed, OthersKeep,
           SwitchAlias,
           NameInv, OneOwner, FencedPC, BuilderPC, Opt
      <4> QED
        BY <3>1, <4>1 DEF FencedPC, BuilderPC
    <3>4. Answerable'
      BY <3>1 DEF Answerable
    <3> QED
      BY <3>2, <3>3, <3>4 DEF Absorbed
  <2> QED
    BY <2>1, <2>2
<1>16. CASE MarkActive(b)
  <2>1. Quiet
    BY <1>7, <1>16 DEF MarkActive
  <2>2. session'[b] = "pending" \/ (pc'[b] = "restoreRead" /\ faults' = faults + 1)
    BY <1>3, <1>16 DEF MarkActive, FenceFails, TypeOK
  <2> QED
    BY <1>2, <1>3, <1>6, <1>16, <2>1, <2>2, SMTT(60) DEF MarkActive, TypeOK, Activates
<1>17. CASE VerifyActivation(b)
  <2>1. Quiet
    BY <1>7, <1>17 DEF VerifyActivation
  <2> QED
    BY <1>2, <1>3, <1>6, <1>17, <2>1, SMTT(60) DEF VerifyActivation, TypeOK, Activates
<1>18. CASE RestoreRead(b)
  <2>1. Quiet
    BY <1>7, <1>18 DEF RestoreRead, Restored, NotRestored
  <2> QED
    BY <1>2, <1>3, <1>5, <1>6, <1>18, <2>1, SMTT(60) DEF RestoreRead, Restored,
       NotRestored, TypeOK,
       PastPrev, BuilderPC
<1>19. CASE RestoreVerify(b)
  <2>1. Quiet
    BY <1>7, <1>19 DEF RestoreVerify, Restored, NotRestored, RestoreAgain
  <2> QED
    BY <1>2, <1>3, <1>5, <1>6, <1>19, <2>1, SMTT(60) DEF RestoreVerify, Restored,
       NotRestored, TypeOK,
       RestoreAgain, Ambiguous, PastPrev, BuilderPC
<1>20. CASE CleanupCheck(b)
  <2>1. Quiet
    BY <1>7, <1>20 DEF CleanupCheck, AfterCleanup
  <2> QED
    BY <1>2, <1>3, <1>6, <1>20, <2>1, SMTT(60) DEF CleanupCheck, AfterCleanup, TypeOK
<1>21. CASE CleanupDelete(b)
  <2>1. Quiet
    BY <1>7, <1>21 DEF CleanupDelete, AfterCleanup
  <2> QED
    BY <1>2, <1>3, <1>6, <1>21, <2>1, SMTT(60) DEF CleanupDelete, AfterCleanup, TypeOK
<1>22. CASE RollbackFence(b)
  <2>1. Quiet
    BY <1>7, <1>22 DEF RollbackFence
  <2> QED
    BY <1>2, <1>3, <1>6, <1>22, <2>1, SMTT(60) DEF RollbackFence, TypeOK
<1>23. CASE MarkFailed(b)
  <2>1. Quiet
    BY <1>5, <1>23, NoneIsFresh DEF MarkFailed, ActiveRow, Opt, TypeOK
  <2> QED
    BY <1>2, <1>3, <1>6, <1>23, <2>1, SMTT(60) DEF MarkFailed, Finish, TypeOK
<1>24. CASE RestoreWrite(b)
  <2>1. CASE alias' = alias
    <3>1. Active' = Active
      BY <1>7, <1>24 DEF RestoreWrite
    <3>2. prev[b] # None /\ Active = prev[b] => store[prev[b]] # "absent"
      BY DEF Looks, Complete, ActiveRow, Opt
    <3>3. /\ UNCHANGED <<coll, task, attempt, tries>>
          /\ pc[b] = "restoreWrite" /\ pc'[b] = "restoreVerify"
          /\ (faults' = faults + 1) \/ (prev[b] # None /\ store[prev[b]] = "absent")
             \/ alias = prev[b]
      BY <1>3, <1>24, <2>1, SMTT(60) DEF RestoreWrite, PointAlias, TypeOK
    <3>4. alias = coll[b] /\ Active = prev[b]  /\ prev[b] # coll[b]
      BY <1>2, <1>5, <3>3 DEF Ambiguous, PastPrev, BuilderPC
    <3> QED
      BY <1>2, <1>3, <1>6, <2>1, <3>1, <3>2, <3>3, <3>4, SMTT(60)
  <2>2. CASE alias' # alias
    <3>1. /\ alias' = prev[b] /\ Active' = Active
          /\ UNCHANGED <<coll, task, attempt, tries, session>>
          /\ pc[b] = "restoreWrite" /\ pc'[b] = "restoreVerify"
      BY <1>3, <1>7, <1>24, <2>2, SMTT(60) DEF RestoreWrite, PointAlias, TypeOK
    <3>2. Active = prev[b]
      BY <1>2, <1>5, <3>1 DEF Ambiguous, PastPrev, BuilderPC
    <3>3. Placed(b)'
      BY <3>1
    <3> QED
      BY <1>1, <3>1, <3>2, <3>3, OthersOutside, AliasAgrees DEF FencedPC, BuilderPC
  <2> QED
    BY <2>1, <2>2
<1>25. CASE CommitFence(b)
  <2> USE DEF CommitFence
  <2>1. /\ alias' = alias /\ audit' \in {audit, Committed(b)} /\ pc[b] = "commit"
        /\ session[b] # "recovered"
    BY <1>25 DEF RecoveredWithin
  <2>2. CASE audit' = audit
    <3>1. Quiet
      BY <1>7, <2>1, <2>2
    <3>2. session[b] # "pending" =>  alias = Active
      BY <1>2, <2>1
    <3>3. session[b] = "pending" /\ ~(audit' = Committed(b))
             => faults' = faults + 1 /\ Activates(b)
      BY <1>2, <1>3, <1>25 DEF FenceFails
    <3>4. session[b] = "pending" => audit' # Committed(b)
      BY <1>5, <2>1, <2>2 DEF Committed, Activated, NameInv, OwnerStatus
    <3>5. CASE session[b] = "pending"
      BY <1>2, <1>3, <1>6, <1>25, <3>1, <3>3, <3>4, <3>5, SMTT(60) DEF TypeOK,
         FenceFails, Finish
    <3>6. CASE session[b] # "pending"
      BY <1>2, <1>3, <1>6, <1>25, <3>1, <3>2, <3>6, SMTT(60) DEF TypeOK, FenceFails,
         Finish
    <3> QED
      BY <3>5, <3>6
  <2>3. CASE audit' # audit
    <3>1. session[b] = "pending" /\ audit' = Activated(coll[b])
      BY <2>1, <2>3 DEF Committed
    <3>2. Active' = coll[b] /\ alias = coll[b]
      BY <1>2, <1>5, <2>1, <3>1, NoneIsFresh DEF ActiveRow, Activated, Opt
    <3>3. Placed(b)'
      BY <1>2, <1>3, <1>25, <2>1, <3>1, <3>2, SMTT(60) DEF TypeOK, Finish
    <3> QED
      BY <1>1, <2>1, <3>2, <3>3, OthersOutside, AliasAgrees DEF FencedPC, BuilderPC
  <2> QED
    BY <2>2, <2>3
<1> QED
  BY <1>8, <1>9, <1>10, <1>11, <1>12, <1>13, <1>14, <1>15, <1>16, <1>17, <1>18, <1>19,
     <1>20, <1>21, <1>22, <1>23, <1>24, <1>25 DEF Build

\* The steps of a recovery.
LEMMA RecoverAbsorbed ==
  ASSUME TypeOK, RecoveredWithin, NameInv, Alone, ActiveRow, ActiveRow', Looks,
         Lineage,
         Absorbed, faults' <= 2, lost = 0, Fenced,
         NEW b \in Builders, Recover(b)
  PROVE  Absorbed'
<1>1. OthersKeep(b) /\ alias' = alias
  BY RecoverKeepsOthers
<1>2. Placed(b) /\ Spent(b) /\ Descends(b)
  BY DEF Absorbed, Lineage
<1>3. /\ b \in Processes /\ attempt[b] \in 1..2 /\ tries[b] \in 0..2 /\ faults \in Nat
      /\ session[b] # "lost"
      /\ pc[b] \in RecoveryPC => tries[b] > 0
  BY DEF TypeOK, Processes, NameInv, OwnerStatus, Recovering, Fenced
<1>4. /\ pc[b] = "recDecide" => live[b] = alias
      /\ pc[b] = "recAudit" => prev[b] = alias
  BY DEF Looks, BuilderLook
<1>5. ASSUME Active' = Active, StillAnswers(b) /\ Placed(b)' /\ Spent(b)' PROVE Absorbed'
  BY <1>1, <1>5, AliasStays
<1>6. audit' = audit => Active' = Active
  BY DEF Active
<1> USE DEF StillAnswers, Placed, Spent, Started, Midway, Descends, RecoveryPC,
        Restoring, Steady, BeforeCommit, Early, Switching,
        stores, fence, targets, previous, loops, local, Goto, Look, Fault, Sound,
        budget
<1>7. CASE RecoverReadAlias(b)
  <2>1. Active' = Active
    BY <1>6, <1>7 DEF RecoverReadAlias
  <2> QED
    BY <1>2, <1>3, <1>5, <1>7, <2>1, SMTT(60) DEF RecoverReadAlias, RecoverAgain,
       Finish, Leave, TypeOK
<1>8. CASE RecoverDecide(b)
  <2>1. Active' = Active
    BY <1>6, <1>8 DEF RecoverDecide
  <2> QED
    BY <1>2, <1>3, <1>4, <1>5, <1>8, <2>1, SMTT(60) DEF RecoverDecide,
       CommittedAfterAll,
       RecoverAgain, Finish, FenceFails, Leave, TypeOK
<1>9. CASE RecoverAudit(b)
  <2>1. Active' = Active
    BY <1>6, <1>9 DEF RecoverAudit
  <2> QED
    BY <1>2, <1>3, <1>5, <1>9, <2>1, SMTT(60) DEF RecoverAudit, TypeOK
<1>10. CASE RecoverExit(b)
  <2>1. Active' = Active
    <3>1. CASE audit' = audit
      BY <1>6, <3>1
    <3>2. CASE audit' # audit
      <4>1. audit' = Recovered(coll[b],
      prevPub[b]) /\ session[b] = "recovered" /\ pc[b] = "recExit"
        BY <1>3, <1>10, <3>2 DEF RecoverExit, Committed, NameInv, OwnerStatus,
           Recovering
      <4>2. Active = prevPub[b] /\ audit[coll[b]] \in {"validated", "failed"}
        BY <1>2, <4>1
      <4> QED
        BY <4>1, <4>2, NoneIsFresh DEF ActiveRow, Recovered, Opt
    <3> QED
      BY <3>1, <3>2
  <2>2. alias = coll[b] => Active = coll[b]
    <3>1. pc[b] = "recExit" /\ coll[b] # None
      BY <1>10 DEF RecoverExit, NameInv, OneOwner
    <3>2. ASSUME NEW a \in Builders, alias = coll[a], alias = coll[b] PROVE a = b
      BY <3>1, <3>2 DEF NameInv, OneOwner
    <3> QED
      BY <3>1, <3>2 DEF Absorbed, Answerable
  <2>3. /\ UNCHANGED <<coll, task>> \/ pc'[b] = "idle"
        /\ \/ pc'[b] = "cleanAcquire"
           \/ pc'[b] \in {"recAcquire", "idle"} /\ attempt'[b] = 1
    BY <1>3, <1>10, SMTT(60) DEF RecoverExit, RecoverAgain, Finish, TypeOK
  <2> QED
    BY <1>1, <1>5, <1>10, <2>1, <2>2, <2>3 DEF RecoverExit
<1>11. CASE CleanupRelease(b)
  <2>1. Active' = Active
    BY <1>6, <1>11 DEF CleanupRelease
  <2> QED
    BY <1>2, <1>3, <1>5, <1>11, <2>1, SMTT(60) DEF CleanupRelease, Finish, TypeOK
<1> QED
  BY <1>7, <1>8, <1>9, <1>10, <1>11 DEF Recover

\* What the builders have, and alias and active row, stay.
Bystanding ==
    /\ alias' = alias /\ audit' = audit /\ faults' = faults
    /\ \A b \in Builders :
         /\ pc'[b] = pc[b] /\ coll'[b] = coll[b] /\ session'[b] = session[b]
         /\ task'[b] = task[b] /\ attempt'[b] = attempt[b] /\ tries'[b] = tries[b]

\* Then nothing is disturbed.
LEMMA BystandersAbsorbed ==
  ASSUME Absorbed, Bystanding
  PROVE  Absorbed'
<1>1. Active' = Active
  BY DEF Active, Bystanding
<1>2. \A b \in Builders : Placed(b)' /\ Spent(b)'
  BY <1>1 DEF Absorbed, Bystanding, Placed, Activates, Spent, Started
<1>3. Answerable'
  BY <1>1 DEF Absorbed, Answerable, Bystanding
<1> QED
  BY <1>2, <1>3 DEF Absorbed

\* Source maintenance is a bystander.
LEMMA MaintainBystands ==
  ASSUME TypeOK, NEW m \in Maintainers, MaintainStart(m) \/ MaintainStep(m)
  PROVE  Bystanding /\ crashes' = crashes /\ lost' = lost
<1> USE ProcessesDisjoint DEF Bystanding, TypeOK, Processes, stores, fence, targets,
        previous, loops, local, budget, Goto, Look, Sound, Enter, Leave
<1>1. CASE MaintainStart(m)
  BY <1>1, SMTT(60) DEF MaintainStart
<1>2. CASE MaintainFirstRead(m)
  BY <1>2, SMTT(60) DEF MaintainFirstRead
<1>3. CASE MaintainSecondRead(m)
  BY <1>3, SMTT(60) DEF MaintainSecondRead
<1>4. CASE MaintainWrite(m)
  BY <1>4, SMTT(60) DEF MaintainWrite
<1>5. CASE MaintainRequire(m)
  BY <1>5, SMTT(60) DEF MaintainRequire
<1>6. CASE MaintainFinalize(m)
  BY <1>6, SMTT(60) DEF MaintainFinalize, Finish
<1>7. CASE MaintainRaise(m)
  BY <1>7, SMTT(60) DEF MaintainRaise, Finish
<1> QED
  BY <1>1, <1>2, <1>3, <1>4, <1>5, <1>6, <1>7 DEF MaintainStep

\* So are queries.
LEMMA ReaderBystands ==
  ASSUME TypeOK, NEW r \in Readers, ReadAudit(r) \/ ReaderStep(r)
  PROVE  Bystanding /\ crashes' = crashes /\ lost' = lost
<1> USE ProcessesDisjoint DEF Bystanding, TypeOK, Processes, stores, fence, targets,
        previous, loops, local, budget, Goto, Look, Sound
<1>1. CASE ReadAudit(r)
  BY <1>1, SMTT(60) DEF ReadAudit
<1>2. CASE ReadAlias(r)
  BY <1>2, SMTT(60) DEF ReadAlias, Finish
<1>3. CASE Search(r)
  BY <1>3, SMTT(60) DEF Search, Finish
<1> QED
  BY <1>1, <1>2, <1>3 DEF ReaderStep

\* Troubles only add up.
LEMMA MildBefore ==
  ASSUME TypeOK, Mild', [Next]_vars
  PROVE  Mild
<1>1. faults \in Nat /\ crashes \in Nat /\ lost \in Nat
  BY DEF TypeOK
<1>2. CASE UNCHANGED vars
  BY <1>2 DEF vars, budget, Mild
<1>3. ASSUME NEW b \in Builders, Start(b) \/ TakeLock(b) \/ BuilderStep(b) PROVE Mild
  BY <1>1, <1>3, EntryKeepsOthers, BuildKeepsOthers, RecoverKeepsOthers
     DEF BuilderStep, OthersKeep, Mild
<1>4. ASSUME NEW p \in Processes, Crash(p) \/ LoseSession(p) PROVE FALSE
  BY <1>1, <1>4 DEF Crash, LoseSession, Mild
<1> QED
  BY <1>2, <1>3, <1>4, MaintainBystands, ReaderBystands DEF Next, Bystanding, Mild

\* Nothing is apart at the start.
LEMMA InitAbsorbed == Init => Absorbed
  BY DEF Init, Absorbed, Answerable, Placed, Spent, Started, Active, Processes,
     Steady,
     BeforeCommit, Early, Switching, Activates, Midway, Restoring

\* With the lineage this is inductive.
AbsorbedInv == Mild => Lineage /\ Absorbed

\* Every step keeps it.
LEMMA AbsorbedStep ==
  ASSUME ServedInv, ServedInv', AbsorbedInv, [Next]_vars
  PROVE  AbsorbedInv'
<1> SUFFICES ASSUME Mild' PROVE Lineage' /\ Absorbed'
  BY DEF AbsorbedInv
<1>1. TypeOK /\ RecoveredWithin /\ NameInv /\ OneActive /\ OneActive' /\ Fenced
  BY DEF ServedInv, FenceInv, HeldInv
<1>2. Mild /\ Lineage /\ Absorbed
  BY <1>1, MildBefore DEF AbsorbedInv
<1>3. lost = 0 /\ faults' <= 2
  BY <1>2 DEF Mild
<1>4. Alone /\ Looks
  BY <1>3, FenceIsExclusive DEF ServedInv, HeldInv
<1>5. ActiveRow
  BY <1>1, ActiveIsOneRow
<1>6. ActiveRow'
  BY <1>1, ActiveRowAfter
<1>7. Lineage'
  BY <1>2, <1>3, LineageStep
<1>8. CASE UNCHANGED vars
  <2>1. Bystanding
    BY <1>8 DEF Bystanding, vars, stores, fence, local, targets, loops, budget
  <2> QED
    BY <1>2, <1>7, <2>1, BystandersAbsorbed
<1>9. ASSUME NEW b \in Builders, Start(b) \/ TakeLock(b) \/ BuilderStep(b)
      PROVE  Absorbed'
  BY <1>1, <1>2, <1>3, <1>4, <1>5, <1>6, <1>9, EntryAbsorbed, BuildAbsorbed,
     RecoverAbsorbed DEF BuilderStep
<1>10. ASSUME NEW p \in Processes, Crash(p) \/ LoseSession(p) PROVE FALSE
  <2>1. crashes' # 0 \/ lost' # 0
    BY <1>1, <1>10 DEF Crash, LoseSession, TypeOK
  <2> QED
    BY <2>1 DEF Mild
<1> QED
  BY <1>1, <1>2, <1>7, <1>8, <1>9, <1>10, BystandersAbsorbed, MaintainBystands,
     ReaderBystands DEF Next

\* A publisher that is done, successfully or not, leaves the alias and the
\* audit on the same generation, whichever two calls to Qdrant or PostgreSQL
\* failed, before or after they took effect, and whatever other builds, queries
\* and maintenance came between; as long as no process is killed and no session
\* dropped.  For any number of publishers and names.
THEOREM TwoFailuresAreAbsorbed == Spec => [](faults <= 2 => AgreeWhenSettled)
<1>1. Init => AbsorbedInv
  BY InitLineage, InitAbsorbed DEF AbsorbedInv
<1>2. ServedInv /\ ServedInv' /\ AbsorbedInv /\ [Next]_vars => AbsorbedInv'
  BY AbsorbedStep
<1>3. ServedInv /\ AbsorbedInv => (faults <= 2 => AgreeWhenSettled)
  <2> SUFFICES ASSUME ServedInv, AbsorbedInv, faults <= 2, Settled, crashes = 0, lost = 0,
                      alias # Active
               PROVE  FALSE
    BY DEF AgreeWhenSettled
  <2>1. PICK b \in Builders : pc[b] \in Midway
    BY DEF AbsorbedInv, Mild, Absorbed, Answerable
  <2>2. pc[b] \in FencedPC
    BY <2>1 DEF Settled, Midway, Restoring, FencedPC, BuilderPC
  <2>3. LiveSession(b) /\ b \in Processes
    BY <2>2 DEF ServedInv, HeldInv, Fenced, LiveSession, TypeOK, Processes,
       SessionState
  <2>4. lock = b
    BY <2>3 DEF ServedInv, FenceInv, LiveHoldsLock
  <2> QED
    BY <2>3, <2>4, NoneIsFresh DEF Settled
<1> QED
  BY ServedInvariant, <1>1, <1>2, <1>3, PTL DEF Spec
=============================================================================
