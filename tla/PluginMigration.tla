-------------------------- MODULE PluginMigration --------------------------
(***************************************************************************)
(* Keeping the plugin DLL in step with the Mod Loader (plugin_updater.py,  *)
(* daemon.py, the installers).  The newest log of the Mod Loader says which *)
(* variant of the plugin it can load; the DLL and its sidecar manifest are  *)
(* replaced one after the other, and a rollback copy of the DLL tells the   *)
(* next launch that the two may not belong together.                       *)
(*                                                                         *)
(* One program at a time touches the files: a daemon that starts, or the    *)
(* installer.  A daemon started by an old launcher migrates in a second     *)
(* thread and stops waiting for it after a grace period.                   *)
(***************************************************************************)
CONSTANTS
    Variants,       \* the variants of the plugin: Current v60, Legacy v47
    Nothing,        \* no such file, or no variant the loader supports
    MidwayChanges   \* the loader may change while a migration is incomplete

ASSUME VariantsAssumption ==
    Nothing \notin Variants /\ MidwayChanges \in BOOLEAN

VARIABLES
    dll,            \* RuptureCompanion.dll
    sidecar,        \* the variant RuptureCompanion.json names
    rollback,       \* RuptureCompanion.dll.rollback
    wanted,         \* what _select_variant makes of the newest log
    program,        \* who is running
    main,           \* the daemon's main thread
    worker,         \* the migration: where it is, and the variant it installs
    cancelEvent

files == <<dll, sidecar, rollback>>
vars == <<files, wanted, program, main, worker, cancelEvent>>

File == Variants \cup {Nothing}
Daemons == {"daemon", "legacy"}

Commit == {"backup", "dll", "sidecar", "undo", "cleanup"}
Finished == {"done", "skipped", "failed"}
Interruptible == {"recover", "sync", "download"}
Worker == [pc : {"idle", "install"} \cup Interruptible \cup Commit \cup Finished,
           variant : File]

At(pc, v) == [pc |-> pc, variant |-> v]
Goto(pc) == worker' = [worker EXCEPT !.pc = pc]

\* A plugin that was copied by hand has no sidecar.
Init ==
    /\ dll \in File /\ sidecar \in {dll, Nothing} /\ rollback = Nothing
    /\ wanted \in File
    /\ program = "nobody" /\ main = "down"
    /\ worker = At("idle", Nothing)
    /\ cancelEvent = FALSE

---------------------------------------------------------------------------
(* Recovery. *)

NeverUnsupported == FALSE               \* mutant of Unsupported: no early return
Unsupported == wanted = Nothing

\* mutant of RecoverPending: what an interrupted migration left is ignored
NeverRecover(v) == UNCHANGED <<dll, rollback>>

\* _recover_pending_plugin
RecoverPending(v) ==
    \/ /\ rollback # Nothing /\ dll # Nothing /\ sidecar = v
       /\ rollback' = Nothing
       /\ UNCHANGED dll
    \/ /\ rollback # Nothing /\ sidecar # v
       /\ dll' = rollback
       /\ rollback' = Nothing
    \/ /\ rollback = Nothing \/ (dll = Nothing /\ sidecar = v)
       /\ UNCHANGED <<dll, rollback>>

\* The installer restores a copy of the rollback copy, which stays.
InstallerRecovers(v) ==
    \/ /\ rollback # Nothing /\ sidecar = v
       /\ rollback' = Nothing
       /\ UNCHANGED dll
    \/ /\ rollback # Nothing /\ sidecar # v
       /\ dll' = rollback
       /\ UNCHANGED rollback
    \/ rollback = Nothing /\ UNCHANGED <<dll, rollback>>

AnyDll(v) == dll' # Nothing             \* mutant of UpToDate: manifest ignored
UpToDate(v) == dll' # Nothing /\ sidecar = v

NotDeferred == FALSE                    \* mutant of Deferred: event not looked at
Deferred == cancelEvent

\* recover_plugin, which only the old launcher's thread calls.
Recover ==
    /\ worker.pc = "recover"
    /\ ~Deferred
    /\ IF Unsupported THEN UNCHANGED <<dll, rollback>> ELSE RecoverPending(wanted)
    /\ Goto("sync")
    /\ UNCHANGED <<sidecar, wanted, program, main, cancelEvent>>

\* _sync_plugin_locked up to its first return statements.
Sync ==
    /\ worker.pc = "sync"
    /\ ~Deferred
    /\ IF Unsupported
       THEN Goto("skipped") /\ UNCHANGED <<dll, rollback>>
       ELSE /\ RecoverPending(wanted)
            /\ worker' = At(IF UpToDate(wanted) THEN "done" ELSE "download", wanted)
    /\ UNCHANGED <<sidecar, wanted, program, main, cancelEvent>>

\* The installer has downloaded the DLL before it looks at the files.
Install ==
    /\ worker.pc = "install"
    /\ ~Unsupported
    /\ InstallerRecovers(wanted)
    /\ worker' = At(IF dll' # Nothing THEN "backup" ELSE "dll", wanted)
    /\ UNCHANGED <<sidecar, wanted, program, main, cancelEvent>>

---------------------------------------------------------------------------
(* The commit, under the commit lock in the daemon. *)

NeverBackUp == FALSE                    \* mutant of NeedsBackup
NeedsBackup == dll # Nothing /\ rollback = Nothing

\* The download is complete.
BeginCommit ==
    /\ worker.pc = "download"
    /\ ~Deferred
    /\ Goto(IF NeedsBackup THEN "backup" ELSE "dll")
    /\ UNCHANGED <<files, wanted, program, main, cancelEvent>>

BackUp ==
    /\ worker.pc = "backup"
    /\ rollback' = dll
    /\ Goto("dll")
    /\ UNCHANGED <<dll, sidecar, wanted, program, main, cancelEvent>>

ReplaceDll ==
    /\ worker.pc = "dll"
    /\ dll' = worker.variant
    /\ Goto("sidecar")
    /\ UNCHANGED <<sidecar, rollback, wanted, program, main, cancelEvent>>

ReplaceSidecar ==
    /\ worker.pc = "sidecar"
    /\ sidecar' = worker.variant
    /\ Goto("cleanup")
    /\ UNCHANGED <<dll, rollback, wanted, program, main, cancelEvent>>

SidecarFails ==
    /\ worker.pc = "sidecar"
    /\ Goto("undo")
    /\ UNCHANGED <<files, wanted, program, main, cancelEvent>>

Undo ==
    /\ worker.pc = "undo"
    /\ dll' = rollback                  \* which is Nothing if there was no DLL
    /\ rollback' = Nothing
    /\ Goto("failed")
    /\ UNCHANGED <<sidecar, wanted, program, main, cancelEvent>>

CleanUp ==
    /\ worker.pc = "cleanup"
    /\ rollback' = Nothing
    /\ Goto("done")
    /\ UNCHANGED <<dll, sidecar, wanted, program, main, cancelEvent>>

\* An OSError, a download that fails, or the migration was deferred.
Fail ==
    /\ worker.pc \in {"install"} \cup Interruptible \cup (Commit \ {"sidecar"})
    /\ Goto("failed")
    /\ UNCHANGED <<files, wanted, program, main, cancelEvent>>

---------------------------------------------------------------------------
(* The programs. *)

FirstStep(p) ==
    CASE p = "daemon"    -> "sync"
      [] p = "legacy"    -> "recover"
      [] p = "installer" -> "install"

Launch(p) ==
    /\ program = "nobody"
    /\ program' = p
    /\ main' = IF p \in Daemons THEN "migrating" ELSE "down"
    /\ worker' = At(FirstStep(p), Nothing)
    /\ UNCHANGED <<files, wanted, cancelEvent>>

\* The program ends, or is killed wherever it is: the launchers kill a daemon
\* that is not ready in time, and one that has run until the game ended.
End ==
    /\ program # "nobody"
    /\ program' = "nobody" /\ main' = "down"
    /\ worker' = At("idle", Nothing)
    /\ cancelEvent' = FALSE
    /\ UNCHANGED <<files, wanted>>

\* The migration is over, whatever came of it; the game may be started.
Proceed ==
    /\ main = "migrating"
    /\ worker.pc \in Finished
    /\ main' = "ready"
    /\ UNCHANGED <<files, wanted, program, worker, cancelEvent>>

\* LEGACY_MIGRATION_GRACE_SECONDS are over and the thread is still alive.
GraceExpires ==
    /\ program = "legacy" /\ main = "migrating"
    /\ worker.pc \notin Finished
    /\ cancelEvent' = TRUE
    /\ main' = "cancelling"
    /\ UNCHANGED <<files, wanted, program, worker>>

DeferAfterJoin ==                       \* mutant of Defer: waits for the thread
    /\ main = "cancelling"
    /\ worker.pc \in Finished
    /\ main' = "ready"
    /\ UNCHANGED <<files, wanted, program, worker, cancelEvent>>

\* The main thread has held the commit lock once.
Defer ==
    /\ main = "cancelling"
    /\ worker.pc \notin Commit
    /\ main' = "ready"
    /\ UNCHANGED <<files, wanted, program, worker, cancelEvent>>

\* DLL and sidecar are known to be, or may be, of different variants.
Incomplete == rollback # Nothing \/ (sidecar # Nothing /\ dll # sidecar)

\* The game runs with another Mod Loader, which logs what it supports.
LoaderChanges ==
    /\ program = "nobody" \/ main = "ready"
    /\ MidwayChanges \/ ~Incomplete
    /\ wanted' \in File
    /\ UNCHANGED <<files, program, main, worker, cancelEvent>>

---------------------------------------------------------------------------
CommitStep == BackUp \/ ReplaceDll \/ ReplaceSidecar \/ SidecarFails \/ Undo \/ CleanUp
WorkerStep == Recover \/ Sync \/ Install \/ BeginCommit \/ CommitStep \/ Fail
MainStep == Proceed \/ GraceExpires \/ Defer

Next ==
    \/ \E p \in Daemons \cup {"installer"} : Launch(p)
    \/ WorkerStep \/ MainStep
    \/ End \/ LoaderChanges

Spec == Init /\ [][Next]_vars

(***************************************************************************)
(* Fairness.  FairSpec: the main thread runs, and replacing or deleting a   *)
(* file ends; reading the log and downloading may hang.                    *)
(* Retries: the game is launched again and again with a current launcher,   *)
(* every launch ends, and no step fails, or is cut off, every single time.  *)
(***************************************************************************)
FairSpec ==
    Spec /\ WF_vars(Proceed) /\ WF_vars(GraceExpires) /\ WF_vars(Defer)
         /\ WF_vars(CommitStep)

Retries ==
    /\ WF_vars(End)
    /\ SF_vars(Launch("daemon"))
    /\ SF_vars(Sync /\ program = "daemon")
    /\ SF_vars(BeginCommit /\ program = "daemon")
    /\ SF_vars(BackUp) /\ SF_vars(ReplaceDll) /\ SF_vars(ReplaceSidecar)

---------------------------------------------------------------------------
\* From the download on a variant is selected: nothing is ever installed when
\* the log names none.
TypeOK ==
    /\ dll \in File /\ sidecar \in File /\ rollback \in File /\ wanted \in File
    /\ program \in {"nobody", "installer"} \cup Daemons
    /\ main \in {"down", "migrating", "cancelling", "ready"}
    /\ worker \in Worker
    /\ worker.pc \in {"download", "done"} \cup Commit => worker.variant # Nothing
    /\ cancelEvent \in BOOLEAN

\* Wherever a migration is interrupted, the DLL that the sidecar names is still
\* there, installed or as the rollback copy.
KeepsPair == sidecar # Nothing => sidecar \in {dll, rollback}

\* README.md: "Incomplete migrations are detected and retried before the game
\* starts".  A migration that ends well, be it because there was nothing to do,
\* leaves the DLL it selected, the sidecar of that DLL, and no rollback copy.
PairAgrees ==
    worker.pc = "done" =>
        dll = worker.variant /\ sidecar = worker.variant /\ rollback = Nothing

\* Once the daemon is ready, so that the game may be started, its own migration
\* does not touch the plugin any more, not even one that was deferred and goes
\* on in the background (cancel_event and commit_lock).
ReadyIsQuiet == [][main = "ready" => UNCHANGED files]_vars

\* A daemon started by an old launcher becomes ready although its migration
\* hangs in the log or in the download.
LegacyStarts == program = "legacy" ~> main = "ready" \/ program # "legacy"

\* When the loader stays the same and the user retries, the plugin it wants is
\* installed in the end, whatever interrupted the attempts before.
Migrates ==
    Retries => \A v \in Variants : <>[](wanted = v) => <>[](dll = v /\ sidecar = v)

---------------------------------------------------------------------------
(***************************************************************************)
(* The inductive invariants.  ControlInv: a daemon that is ready has no      *)
(* migration that could still pass a check of cancel_event.  PairInv: while *)
(* the variant wanted does not change midway, a DLL that is not the          *)
(* sidecar's is the one wanted, and the sidecar's is the rollback copy.     *)
(***************************************************************************)
ControlInv ==
    /\ program = "nobody" => main = "down" /\ worker.pc = "idle"
    /\ main # "down" => worker.pc \notin {"idle", "install"}
    /\ main = "cancelling" => cancelEvent
    /\ main = "ready" =>
        worker.pc \in Finished \/ (cancelEvent /\ worker.pc \in Interruptible)

SavedPair == sidecar # Nothing => rollback = sidecar

PairInv ==
    /\ dll # sidecar => SavedPair
    /\ sidecar # Nothing /\ dll # sidecar => dll = wanted
    /\ rollback # Nothing /\ sidecar # wanted => SavedPair
    /\ worker.pc = "download" =>
        (worker.variant = wanted \/ cancelEvent) /\ rollback = Nothing
    /\ worker.pc \in Commit => worker.variant = wanted
    /\ worker.pc \in {"backup", "dll"} /\ sidecar # Nothing => dll = sidecar
    /\ worker.pc \in {"dll", "sidecar", "undo"} => SavedPair
    /\ worker.pc \in {"sidecar", "undo"} => dll = worker.variant
    /\ worker.pc = "cleanup" => dll = worker.variant /\ sidecar = worker.variant
    /\ PairAgrees
=============================================================================
