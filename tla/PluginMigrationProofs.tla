------------------------ MODULE PluginMigrationProofs ------------------------
(***************************************************************************)
(* Proofs about PluginMigration, for any set of variants.                  *)
(***************************************************************************)
EXTENDS PluginMigration, TLAPS

\* Init satisfies every invariant.
LEMMA InitInv == Init => TypeOK /\ ControlInv /\ PairInv
<1> SUFFICES ASSUME Init PROVE TypeOK /\ ControlInv /\ PairInv
  OBVIOUS
<1>1. worker.pc = "idle" /\ worker.variant = Nothing
  BY DEF Init, At
<1>2. TypeOK
  BY <1>1, VariantsAssumption
     DEF Init, TypeOK, File, At, Worker, Interruptible, Commit, Finished, Daemons
<1>3. ControlInv
  BY <1>1 DEF Init, ControlInv
<1>4. sidecar = dll \/ sidecar = Nothing
  BY DEF Init
<1>5. PairInv
  BY <1>1, <1>4 DEF Init, PairInv, PairAgrees, SavedPair, Commit
<1> QED
  BY <1>2, <1>3, <1>5

\* Types are preserved by every step.
LEMMA TypeNext == TypeOK /\ [Next]_vars => TypeOK'
<1> SUFFICES ASSUME TypeOK, [Next]_vars PROVE TypeOK'
  OBVIOUS
<1> USE VariantsAssumption DEF TypeOK, File, Worker, Interruptible, Commit, Finished, Daemons
<1>1. ASSUME NEW p \in Daemons \cup {"installer"}, Launch(p) PROVE TypeOK'
  BY <1>1 DEF Launch, At, FirstStep, files
<1>2. CASE Recover
  BY <1>2 DEF Recover, RecoverPending, Goto
<1>3. CASE Sync
  BY <1>3 DEF Sync, RecoverPending, Goto, At, Unsupported
<1>4. CASE Install
  BY <1>4 DEF Install, InstallerRecovers, At, Unsupported
<1>5. CASE BeginCommit
  BY <1>5 DEF BeginCommit, Goto, files
<1>6. CASE CommitStep
  BY <1>6 DEF CommitStep, BackUp, ReplaceDll, ReplaceSidecar, SidecarFails, Undo, CleanUp,
     Goto, files
<1>7. CASE Fail
  BY <1>7 DEF Fail, Goto, files
<1>8. CASE MainStep
  BY <1>8 DEF MainStep, Proceed, GraceExpires, Defer, files
<1>9. CASE End
  BY <1>9 DEF End, At, files
<1>10. CASE LoaderChanges
  BY <1>10 DEF LoaderChanges, files
<1>11. CASE UNCHANGED vars
  BY <1>11 DEF vars, files
<1> QED
  BY <1>1, <1>2, <1>3, <1>4, <1>5, <1>6, <1>7, <1>8, <1>9, <1>10, <1>11
     DEF Next, WorkerStep

\* Type correctness: whatever is interrupted or fails, files hold variants, and
\* from the download on a variant is selected.
THEOREM MigrationTypes == Spec => []TypeOK
<1>1. Init => TypeOK
  BY InitInv
<1> QED
  BY <1>1, TypeNext, PTL DEF Spec

---------------------------------------------------------------------------
\* The control state: once ready, a daemon has no migration left that could
\* pass another check of cancel_event.
LEMMA ControlNext == TypeOK /\ ControlInv /\ [Next]_vars => ControlInv'
<1> SUFFICES ASSUME TypeOK, ControlInv, [Next]_vars PROVE ControlInv'
  OBVIOUS
<1> USE DEF ControlInv, Interruptible, Finished
<1>1. ASSUME NEW p \in Daemons \cup {"installer"}, Launch(p) PROVE ControlInv'
  BY <1>1 DEF Launch, At, FirstStep, Daemons
<1>2. CASE WorkerStep
  <2> USE DEF TypeOK, Worker, Commit
  <2>1. CASE Recover
    BY <2>1 DEF Recover, Goto, Deferred
  <2>2. CASE Sync
    BY <2>2 DEF Sync, Goto, At, Deferred
  <2>3. CASE Install
    BY <2>3 DEF Install, At
  <2>4. CASE BeginCommit
    BY <2>4 DEF BeginCommit, Goto, Deferred
  <2>5. CASE CommitStep
    BY <2>5 DEF CommitStep, BackUp, ReplaceDll, ReplaceSidecar, SidecarFails, Undo, CleanUp, Goto
  <2>6. CASE Fail
    BY <2>6 DEF Fail, Goto
  <2> QED
    BY <1>2, <2>1, <2>2, <2>3, <2>4, <2>5, <2>6 DEF WorkerStep
<1>3. CASE MainStep
  BY <1>3 DEF MainStep, Proceed, GraceExpires, Defer, TypeOK, Worker, Commit
<1>4. CASE End
  BY <1>4 DEF End, At
<1>5. CASE LoaderChanges
  BY <1>5 DEF LoaderChanges
<1>6. CASE UNCHANGED vars
  BY <1>6 DEF vars
<1> QED
  BY <1>1, <1>2, <1>3, <1>4, <1>5, <1>6 DEF Next

LEMMA ControlHolds == Spec => [](TypeOK /\ ControlInv)
<1>1. Init => TypeOK /\ ControlInv
  BY InitInv
<1>2. TypeOK /\ ControlInv /\ [Next]_vars => (TypeOK /\ ControlInv)'
  BY TypeNext, ControlNext
<1> QED
  BY <1>1, <1>2, PTL DEF Spec

\* A daemon that is ready does not touch the plugin files, deferred migration or
\* not: the game may be started.
THEOREM QuietAfterReady == Spec => ReadyIsQuiet
<1>1. ControlInv /\ [Next]_vars => [main = "ready" => UNCHANGED files]_vars
  <2> SUFFICES ASSUME ControlInv, [Next]_vars, main = "ready" PROVE UNCHANGED files
    OBVIOUS
  <2>1. worker.pc \in Finished \/ (cancelEvent /\ worker.pc \in Interruptible)
    BY DEF ControlInv
  <2>2. ASSUME NEW p \in Daemons \cup {"installer"}, Launch(p) PROVE UNCHANGED files
    BY <2>2 DEF Launch
  <2>3. CASE WorkerStep
    BY <2>1, <2>3 DEF WorkerStep, Recover, Sync, Install, BeginCommit, CommitStep, BackUp,
       ReplaceDll, ReplaceSidecar, SidecarFails, Undo, CleanUp, Fail, Deferred,
       Finished, Interruptible
  <2>4. CASE MainStep \/ End \/ LoaderChanges
    BY <2>4 DEF MainStep, Proceed, GraceExpires, Defer, End, LoaderChanges
  <2>5. CASE UNCHANGED vars
    BY <2>5 DEF vars
  <2> QED
    BY <2>2, <2>3, <2>4, <2>5 DEF Next
<1> QED
  BY <1>1, ControlHolds, PTL DEF Spec, ReadyIsQuiet

---------------------------------------------------------------------------
\* Recovery, by the daemon or by an installer, leaves either no rollback copy or
\* one of the DLL that the sidecar names, and the DLL that the sidecar names.
LEMMA Recovered ==
    ASSUME TypeOK, PairInv, ~Unsupported,
           RecoverPending(wanted) \/ InstallerRecovers(wanted)
    PROVE  /\ sidecar # Nothing => dll' = sidecar
           /\ rollback' = Nothing \/ (rollback' = rollback /\ sidecar # wanted)
           /\ RecoverPending(wanted) => rollback' = Nothing
<1> USE DEF PairInv, SavedPair, Unsupported
<1>1. RecoverPending(wanted) =>
        (sidecar # Nothing => dll' = sidecar) /\ rollback' = Nothing
  BY DEF RecoverPending
<1>2. InstallerRecovers(wanted) =>
        /\ sidecar # Nothing => dll' = sidecar
        /\ rollback' = Nothing \/ (rollback' = rollback /\ sidecar # wanted)
  BY DEF InstallerRecovers
<1> QED
  BY <1>1, <1>2

\* While the loader does not change midway, the pair stays recoverable.
LEMMA PairNext ==
    ASSUME MidwayChanges = FALSE
    PROVE  TypeOK /\ ControlInv /\ PairInv /\ [Next]_vars => PairInv'
<1> SUFFICES ASSUME TypeOK, ControlInv, PairInv, [Next]_vars PROVE PairInv'
  OBVIOUS
<1> USE DEF PairInv, SavedPair, PairAgrees
<1>1. ASSUME NEW p \in Daemons \cup {"installer"}, Launch(p) PROVE PairInv'
  BY <1>1 DEF Launch, At, FirstStep, Daemons, files, Commit
<1>2. CASE Recover
  <2>1. worker'.pc = "sync" /\ UNCHANGED <<sidecar, wanted>>
    BY <1>2 DEF Recover, Goto, TypeOK, Worker
  <2>2. CASE Unsupported
    BY <1>2, <2>1, <2>2 DEF Recover, Commit
  <2>3. CASE ~Unsupported
    BY <1>2, <2>1, <2>3, Recovered DEF Recover, Commit
  <2> QED
    BY <2>2, <2>3
<1>3. CASE Sync
  <2>1. UNCHANGED <<sidecar, wanted>>
    BY <1>3 DEF Sync
  <2>2. CASE Unsupported
    BY <1>3, <2>1, <2>2 DEF Sync, Goto, TypeOK, Worker, Commit
  <2>3. CASE ~Unsupported
    <3>1. RecoverPending(wanted)
      BY <1>3, <2>3 DEF Sync
    <3>2. rollback' = Nothing /\ (sidecar # Nothing => dll' = sidecar)
      BY <2>3, <3>1, Recovered
    <3>3. worker' = At(IF UpToDate(wanted) THEN "done" ELSE "download", wanted)
      BY <1>3, <2>3 DEF Sync
    <3> QED
      BY <2>1, <2>3, <3>2, <3>3 DEF At, UpToDate, Commit, Unsupported
  <2> QED
    BY <2>2, <2>3
<1>4. CASE Install
  <2>1. UNCHANGED <<sidecar, wanted>> /\ ~Unsupported /\ InstallerRecovers(wanted)
    BY <1>4 DEF Install
  <2>2. worker' = At(IF dll' # Nothing THEN "backup" ELSE "dll", wanted)
    BY <1>4 DEF Install
  <2>3. /\ sidecar # Nothing => dll' = sidecar
        /\ rollback' = Nothing \/ (rollback' = rollback /\ sidecar # wanted)
    BY <2>1, Recovered
  <2> QED
    BY <2>1, <2>2, <2>3 DEF At, Commit, Unsupported
<1>5. CASE BeginCommit
  BY <1>5 DEF BeginCommit, Goto, Deferred, NeedsBackup, files, TypeOK, Worker, Commit
<1>6. CASE CommitStep
  <2> USE DEF TypeOK, Worker, Goto, Commit, files
  <2>1. CASE BackUp
    BY <2>1 DEF BackUp
  <2>2. CASE ReplaceDll
    BY <2>2 DEF ReplaceDll
  <2>3. CASE ReplaceSidecar
    BY <2>3 DEF ReplaceSidecar
  <2>4. CASE SidecarFails
    BY <2>4 DEF SidecarFails
  <2>5. CASE Undo
    BY <2>5 DEF Undo
  <2>6. CASE CleanUp
    BY <2>6 DEF CleanUp
  <2> QED
    BY <1>6, <2>1, <2>2, <2>3, <2>4, <2>5, <2>6 DEF CommitStep
<1>7. CASE Fail
  BY <1>7 DEF Fail, Goto, files, TypeOK, Worker, Commit
<1>8. CASE MainStep
  BY <1>8 DEF MainStep, Proceed, GraceExpires, Defer, files
<1>9. CASE End
  BY <1>9, ControlInv DEF End, At, files, Commit
<1>10. CASE LoaderChanges
  <2>1. ~Incomplete /\ UNCHANGED <<files, worker, cancelEvent>>
    BY <1>10 DEF LoaderChanges
  <2>2. worker.pc \notin Commit /\ (worker.pc = "download" => cancelEvent)
    BY <1>10 DEF LoaderChanges, ControlInv, Commit, Finished, Interruptible
  <2> QED
    BY <2>1, <2>2 DEF Incomplete, files
<1>11. CASE UNCHANGED vars
  BY <1>11 DEF vars, files
<1> QED
  BY <1>1, <1>2, <1>3, <1>4, <1>5, <1>6, <1>7, <1>8, <1>9, <1>10, <1>11
     DEF Next, WorkerStep

LEMMA PairHolds ==
    ASSUME MidwayChanges = FALSE
    PROVE  Spec => []PairInv
<1>1. Init => PairInv
  BY InitInv
<1>2. TypeOK /\ ControlInv /\ PairInv /\ [Next]_vars => PairInv'
  BY PairNext
<1> QED
  BY <1>1, <1>2, ControlHolds, PTL DEF Spec

\* While the loader does not change midway, the DLL the sidecar names survives an
\* interruption at any point of a migration or an installation.
THEOREM PairSurvives ==
    ASSUME MidwayChanges = FALSE
    PROVE  Spec => []KeepsPair
<1>1. PairInv => KeepsPair
  BY DEF PairInv, SavedPair, KeepsPair
<1> QED
  BY <1>1, PairHolds, PTL

\* While the loader does not change midway, a migration that ends well leaves a
\* DLL and a sidecar of the variant it selected, whatever was interrupted before.
THEOREM PairCompleted ==
    ASSUME MidwayChanges = FALSE
    PROVE  Spec => []PairAgrees
<1>1. PairInv => PairAgrees
  BY DEF PairInv
<1> QED
  BY <1>1, PairHolds, PTL
=============================================================================
