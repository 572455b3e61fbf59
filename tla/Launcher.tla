------------------------------ MODULE Launcher ------------------------------
(***************************************************************************)
(* The launchers (run-with-companion.sh, run-with-companion.ps1): update the *)
(* backend, start its daemon, wait until it is ready, start the game, and    *)
(* restart the daemon for as long as the game runs.  A backend whose daemon  *)
(* became ready is confirmed, one whose daemon did not is rolled back.       *)
(***************************************************************************)
EXTENDS BackendStore, DaemonProcess
CONSTANTS
    Flaky,          \* good backends may fail, launchers may be killed
    CutRollback,    \* ... also between the last two steps of a rollback
    SharedRead,     \* on Windows, ReadAllText reads a file that is open for writing
    StderrStops     \* Windows PowerShell ends the script at a line on redirected stderr

ASSUME LauncherAssumption ==
    /\ Flaky \in BOOLEAN /\ CutRollback \in BOOLEAN
    /\ SharedRead \in BOOLEAN /\ StderrStops \in BOOLEAN

VARIABLES
    windows,        \* which of the two launchers
    pc, after,      \* what the launcher does, and does after a rollback
    backend,        \* the release it runs, 0 for the checked-out copy
    mine,           \* its daemon
    inGame,         \* the game has been started
    valid           \* history: the last release that was confirmed

script == <<after, backend, mine, inGame, valid>>
vars == <<storeVars, processVars, windows, pc, script>>

Update == {"update", "clear", "move", "place", "record"}
Rollback == {"remove", "restore", "forget"}
Unpacked == pc \in {"clear", "move", "place", "record"}

Init ==
    /\ StoreInit /\ ProcessInit
    /\ windows \in BOOLEAN
    /\ pc = "down" /\ after = "down"
    /\ backend = 0 /\ mine = Nobody /\ inGame = FALSE /\ valid = 0

Works == backend \in Good \cup {0}

\* A step on the files of the backend.
StoreStep(from, Step, to) ==
    /\ pc = from /\ Step
    /\ pc' = to
    /\ UNCHANGED <<processVars, windows, script>>

---------------------------------------------------------------------------
(* updater.py, and which backend to run. *)

Launch ==
    /\ pc = "down"
    /\ pc' = "update"
    /\ backend' = 0 /\ mine' = Nobody /\ inGame' = FALSE
    /\ UNCHANGED <<storeVars, processVars, windows, after, valid>>

\* updater.py has written on stderr what went wrong.  The Windows launcher runs it
\* with $ErrorActionPreference = "Stop" and may end there; the other one goes on.
AfterMessage(to) == IF windows /\ StderrStops THEN "down" ELSE to

\* "update skipped"
UpdateSkipped ==
    \/ StoreStep("update", DownloadFails, AfterMessage("select"))
    \/ StoreStep("move", MoveFails, AfterMessage("select"))
    \/ StoreStep("place", PutBack, AfterMessage("select"))
    \/ Flaky /\ StoreStep("record", UNCHANGED storeVars, AfterMessage("select"))

UpdateStep ==
    \/ StoreStep("update", KeepBackend, "select")
    \/ StoreStep("update", Unpack, "clear")
    \/ StoreStep("clear", ClearPrevious(Flaky), "move")
    \/ StoreStep("move", MoveToPrevious, "place")
    \/ StoreStep("place", Place, "record")
    \/ StoreStep("record", RecordEtag, "select")
    \/ UpdateSkipped

UseCheckout ==
    /\ pc = "select" /\ installed \in {0, Broken}
    /\ pc' = "start"
    /\ UNCHANGED <<storeVars, processVars, windows, script>>

UseInstalled ==
    /\ pc = "select" /\ installed # 0
    /\ backend' = installed
    /\ pc' = "start"
    /\ UNCHANGED <<storeVars, processVars, windows, after, mine, inGame, valid>>

\* uv is missing, or cannot install what the backend depends on.
SyncFails ==
    /\ pc = "select" /\ installed # 0
    /\ Flaky \/ installed \notin Good
    /\ pc' = "remove" /\ after' = "start"
    /\ UNCHANGED <<storeVars, processVars, windows, backend, mine, inGame, valid>>

---------------------------------------------------------------------------
(* Starting the daemon and waiting for it. *)

StartDaemon(d) ==
    /\ pc = "start"
    /\ Spawn(d)
    /\ mine' = d
    /\ pc' = "wait"
    /\ UNCHANGED <<storeVars, windows, after, backend, inGame, valid>>

\* A daemon that is running has its lock file open.  Only the bash launcher looks
\* whether the lock is held.
CanRead == windows => SharedRead

SeeIdentity ==
    /\ pc = "wait"
    /\ Running(mine) /\ lockText = mine
    /\ CanRead
    /\ windows \/ lock # Nobody
    /\ pc' = "seen"
    /\ UNCHANGED <<storeVars, processVars, windows, script>>

SeeReady ==
    /\ pc = "seen"
    /\ pc' = IF readyText = mine THEN "confirm" ELSE "wait"
    /\ UNCHANGED <<storeVars, processVars, windows, script>>

\* The daemon ended, or two minutes are over.
WaitEnds ==
    /\ pc = "wait"
    /\ Running(mine) => Flaky \/ ~Works \/ ~CanRead

LeaveInstalled ==                       \* mutant of NotReady: no rollback
    /\ WaitEnds
    /\ Die(mine)
    /\ pc' = IF inGame THEN "alone" ELSE "down"
    /\ UNCHANGED <<storeVars, windows, after, backend, mine, inGame, valid>>

\* The daemon is stopped.  After a restart the Windows launcher keeps the backend,
\* the other one rolls it back.
NotReady ==
    /\ WaitEnds
    /\ Die(mine)
    /\ pc' = IF windows /\ inGame THEN "alone" ELSE "remove"
    /\ after' = IF inGame THEN "alone" ELSE "down"
    /\ UNCHANGED <<storeVars, windows, backend, mine, inGame, valid>>

RollbackStep ==
    \/ StoreStep("remove", RemoveInstalled(Flaky), "restore")
    \/ StoreStep("restore", RestorePrevious, "forget")
    \/ StoreStep("restore", RestoreFails, AfterMessage(after))
    \/ StoreStep("forget", ForgetEtag, after)

\* The game is started, unless it is running.
Confirm ==
    /\ pc = "confirm"
    /\ ClearPrevious(Flaky)
    /\ valid' = IF backend # 0 THEN backend ELSE valid
    /\ inGame' = TRUE
    /\ pc' = "game"
    /\ UNCHANGED <<processVars, windows, after, backend, mine>>

---------------------------------------------------------------------------
(* While the game runs, and the end. *)

DaemonEnded ==
    /\ pc = "game" /\ ~Running(mine)
    /\ pc' = "start"
    /\ UNCHANGED <<storeVars, processVars, windows, script>>

GameEnds ==
    /\ pc \in {"game", "alone"}
    /\ Die(mine)
    /\ pc' = "down"
    /\ UNCHANGED <<storeVars, windows, script>>

\* The launcher is killed together with the updater, but not with the daemon,
\* which has a session of its own; removing a directory may be cut short.
Kill ==
    /\ Flaky /\ pc # "down"
    /\ pc = "forget" => CutRollback
    /\ installed' \in {installed} \cup Leftovers(installed, pc = "remove")
    /\ previous' \in {previous} \cup Leftovers(previous, pc \in {"clear", "confirm"})
    /\ pc' = "down"
    /\ UNCHANGED <<release, unpacked, etag, processVars, windows, script>>

---------------------------------------------------------------------------
\* Of the daemon started last, if nothing is flaky: a good one ends only while
\* the game runs, a bad one never becomes ready.
MayEnd(d) == Flaky \/ pc = "game" \/ (d = mine /\ ~Works)

DaemonProgress(d) ==
    /\ \/ AcquireLock(d) \/ AlreadyRunning(d) \/ PublishIdentity(d)
       \/ CloseLock(d)
       \/ (d = mine => Works) /\ PublishReady(d)
    /\ UNCHANGED <<storeVars, windows, pc, script>>

DaemonEnds(d) ==
    /\ Running(d) /\ MayEnd(d)
    /\ Unwind(d) \/ Die(d)
    /\ UNCHANGED <<storeVars, windows, pc, script>>

GitHub ==
    /\ PublishRelease
    /\ UNCHANGED <<processVars, windows, pc, script>>

LauncherProgress ==
    \/ Launch \/ UpdateStep \/ UseCheckout \/ UseInstalled \/ SyncFails
    \/ (\E d \in Processes : StartDaemon(d))
    \/ SeeIdentity \/ SeeReady \/ NotReady
    \/ RollbackStep \/ Confirm \/ DaemonEnded

Next ==
    \/ LauncherProgress \/ GameEnds \/ Kill \/ GitHub
    \/ \E d \in Processes : DaemonProgress(d) \/ DaemonEnds(d)

Spec == Init /\ [][Next]_vars

\* The launcher is started again and again and gets on with its script, a daemon
\* gets on with starting, and two minutes are enough for a good one.
FairSpec ==
    /\ Spec
    /\ WF_vars(LauncherProgress) /\ SF_vars(NotReady)
    /\ \A d \in Processes : WF_vars(DaemonProgress(d))
    /\ SF_vars(SeeReady /\ pc' = "confirm")

---------------------------------------------------------------------------
\* At most one daemon holds the lock; the parts of the state have their types.
TypeOK ==
    /\ StoreTypeOK /\ ProcessTypeOK
    /\ windows \in BOOLEAN /\ inGame \in BOOLEAN
    /\ pc \in Update \cup Rollback \cup {"down", "select", "start", "wait", "seen",
                                         "confirm", "game", "alone"}
    /\ after \in {"down", "start", "alone"}
    /\ backend \in Dir /\ valid \in Dir
    /\ mine \in Processes \cup {Nobody}

\* test_launcher_waits_for_daemon_readiness_before_starting_game: the launcher
\* confirms the backend and starts the game only after the very daemon it has
\* started was ready, whatever other daemons have left in the files.
GameNeedsReadyDaemon == pc = "confirm" => mine \in served

\* The next download never takes a release for installed when an older one is:
\* GitHub would answer "not modified", and the update be missed.
NoMissedUpdate == pc = "update" /\ installed \in Releases => etag <= installed

\* README.md: "the last valid downloaded backend".  It stays on disk until
\* another one has become ready.  Implied by ImplementsTrial.
ValidBackendKept == valid # 0 => valid \in {installed, previous}

\* When the releases are good from some time on, the game can be started again,
\* whatever bad releases were downloaded before, and also if GitHub is not to be
\* reached; the latter not where a skipped update ends the script.
GameStarts ==
    /\ <>[](release \in Good)
    /\ windows /\ StderrStops => <>[][~UpdateSkipped]_vars
    => []<>(pc = "game")

\* README.md: "If GitHub is unavailable, the last valid downloaded backend -- or the
\* checked-out copy -- is used".  When from some time on nothing can be downloaded,
\* the game can still be started again and again, on Windows too.
GameStartsOffline == <>[]~Unpacked => []<>(pc = "game")

---------------------------------------------------------------------------
(***************************************************************************)
(* The inductive invariant.  OwnersInv: the identity is in daemon.lock before *)
(* daemon.ready is written.  ServedInv: a readiness that can be read is that *)
(* of a daemon that was ready.  EtagInv, for CutRollback = FALSE: how the     *)
(* etag compares with the releases on their way into the backend directory. *)
(* For Flaky = FALSE and SharedRead = TRUE: AloneInv, the daemon of this       *)
(* launcher is alone, so a good one becomes ready; CopyInv, where the valid   *)
(* backend is while a newer one takes its place, and that only a bad one is  *)
(* removed.                                                                *)
(***************************************************************************)
OwnersInv ==
    /\ \A d \in Processes : daemon[d] = "publish" => lockText = d
    /\ ReadyFileIsOwners

ServedInv ==
    /\ readyText # Nobody => readyText \in served
    /\ pc \in {"wait", "seen", "confirm"} => mine \in Processes
    /\ GameNeedsReadyDaemon

EtagInv ==
    /\ etag <= release
    /\ Unpacked => unpacked \in etag..release /\ unpacked # 0
    /\ pc \in {"clear", "move"} /\ installed \notin Releases => etag = 0
    /\ pc = "place" => installed = 0 /\ (previous \in Releases => etag <= previous)
    /\ pc = "record" => installed = unpacked
    /\ pc # "forget" /\ installed \in Releases => etag <= installed

Waiting == {"wait", "seen", "confirm"}
Serving == Waiting \cup {"start"}

AloneInv ==
    /\ \A d \in Processes : Running(d) => d = mine /\ pc \in Waiting \cup {"game"}
    /\ pc \in Waiting =>
        /\ Works => daemon[mine] \notin {"none", "unwind"}
        /\ readyText = mine => Works
    /\ pc = "confirm" => Works

CopyInv ==
    /\ valid \in Good \cup {0} /\ valid <= release
    /\ Unpacked => unpacked \in Releases \cap valid .. release
    /\ pc \in Update \cup Rollback \cup {"select"} => ~inGame
    /\ pc \in Update \cup {"select"} => backend = 0
    /\ pc \in Rollback /\ after = "start" => backend = 0
    /\ pc \in Serving \cup {"game"} /\ backend # 0 => backend = installed
    /\ pc \in {"down", "update", "clear", "move", "forget", "game", "alone"} =>
        installed = valid
    /\ pc = "move" => previous = 0
    /\ pc \in {"place", "remove", "restore"} => previous = valid
    /\ pc \in {"place", "restore"} => installed = 0
    /\ pc = "remove" => installed \in Releases \ Good
    /\ pc \in Serving \cup {"record", "select"} =>
        \/ installed = valid
        \/ previous = valid /\ installed \in valid + 1 .. release /\ ~inGame
    /\ pc \in Serving /\ backend = 0 => installed = valid

---------------------------------------------------------------------------
Trial == INSTANCE BackendTrial WITH
    confirmed <- IF valid \in {installed, previous} THEN valid ELSE 0,
    candidate <- IF installed \in Releases \ {valid} THEN installed ELSE 0,
    playing <- IF inGame /\ pc # "down" THEN {backend} ELSE {}

\* README.md: "the last valid downloaded backend -- or the checked-out copy -- is
\* used".  With all its steps an update is a trial, which ends before the game
\* starts and leaves the confirmed release on disk, unless a newer one that is good
\* takes its place.
ImplementsTrial == Trial!Spec
=============================================================================
