# A TLA+ development of Rupture Companion

Rupture Companion is a chat panel inside a game.  A *plugin* in the game process
writes the player's question to a file; a *companion daemon* outside the game
takes a screenshot, asks Claude, and writes the answer to another file.  Around
the two stand launchers, an updater for the daemon, a migration of the plugin
DLL, and the hooks by which the plugin reads the state of the game.

This directory models the parts in which the program's own logic lives, as TLA+
modules: the conversation between plugin and daemon, the contents of a question
(the snapshot of the game, the text of the files, the screenshot), the migration
of the plugin DLL, the hooks in the game, and the launchers with the updater.  TLC
checks them on small instances, and TLAPS proves their safety properties for every
value of the constants.

## 1. Inventory

| component | state it keeps | operations | interacts through |
|---|---|---|---|
| plugin chat, `plugin/plugin.cpp` | `ChatState` under a mutex: transcript, session id, sequence, `waiting`, `canRetry`, `lastQuestion`, `waitingSince` | Send, Retry, Cancel, New chat (render thread); the poll loop (its own thread) | bridge files, live context |
| bridge, `plugin/bridge.cpp`, `bridge.h` | the files `question.txt`, `cancel.txt`, `answer.txt` | write a temporary file and rename it; read and validate | file system |
| daemon, `daemon.py` | `seen_request`, a `Conversation` (history, web mode, pending answer), the lock file | poll, process a request, publish, start, crash | bridge files, AI backend, screenshot, plugin migration |
| AI backend, `ai_backend.py` | none between calls | choose tools, run Claude, watch for a cancellation, retry without web tools | the `claude` process, `cancel.txt` |
| screenshot, `screenshot.py`, `kwin_screenshot_helper.c` | one file; when KWin was last found unavailable | prepare, capture, delete | KWin, Spectacle, Pillow |
| live context, `plugin/live_context.cpp` | a snapshot under a mutex, the hooked world, the time of the next sample and probe | hooks on the game thread, capture, snapshot, shutdown barrier | game engine, plugin chat |
| plugin migration, `plugin_updater.py` | DLL, sidecar manifest, rollback copy | recover, sync, both under a file lock; a grace period for old launchers | the mod loader's log, GitHub, installers |
| backend updater, `updater.py` | current, previous and pending backend directories | update, confirm, roll back | launchers, GitHub |
| launchers, `run-with-companion.*` | the pids of daemon and game, a nonce | start, wait for readiness, restart, stop | `daemon.lock`, `daemon.ready`, updater |
| installers, `install-plugin.*` | none | copy DLL and sidecar, restore a rollback copy | plugin files |

What is hard here, and what makes each component correct:

* **Plugin chat.**  Two threads share `ChatState` but release the mutex around
  every file operation, so what was read before is stale when it is used after.
  A reply must be to the question above it; there must be one reply at most; the
  flags must let the player go on after every failure; no wait may be forever.
* **Bridge.**  Two processes with no other channel; old files stay where they
  are when either restarts.  Identities must be enough to tell old from new.
* **Daemon.**  Any step may fail with a transient error and is then tried again,
  which must neither lose an answer, repeat it, mix it with another question,
  nor carry one chat's turns or web mode into another.
* **Question and answer as text.**  The player's words, the game's names and
  Claude's answer travel in lines between two languages and two systems; a mark of
  the protocol inside a text, a line end of the other system or a limit that two
  ends count differently loses the question or the answer.
* **Snapshot.**  Every list in it has a limit, and so has the whole.  What is left
  out must be listed, or Claude takes it for all there is.
* **Screenshot.**  A helper, KWin and Spectacle write files in their own time, also
  when nobody waits any more.  The picture must be whole, of this question, and
  gone afterwards; no failure may leave the question waiting.
* **Plugin migration.**  Two files cannot be replaced at once; a crash between
  the two must be recovered, also when the wanted variant has changed since.
* **Live context.**  The snapshot must belong to the current world; hooks must
  be gone, and no capture running, when the DLL is unloaded.
* **Launchers and updater.**  A backend is confirmed only if its daemon became
  ready; one that does not is rolled back; one daemon at a time.

`PROJECT.json` lists the individual hazards, each at its line, with the
properties that would catch it.

## 2. Modules

| module | what it is |
|---|---|
| `Requests` | identity of a request (sequence number and session), the order in which identities are issued, the trim of a bounded list |
| `BridgeFiles` | the three files |
| `PluginChat` | render thread and poll thread of the plugin |
| `CompanionDaemon` | the daemon with backend and screenshot as it sees them |
| `ChatBridge` | both joined by the files; restart of the game; fairness; all properties; the inductive invariant; the refinement mapping |
| `ChatService` | the abstract specification: what the player is promised |
| `MCChatBridge` | the instance TLC checks |
| `ChatBridgeProofs` | type correctness, lemmas on the operators, the inductive invariant, the safety theorems, the refinement; the Retry button; `/web off` |
| `Lists` | lists as the loops of the code make them: cut, filtered, in the order of a key |
| `Sections` | each section of a snapshot: what is read of the game, its limits, the escaping of names |
| `Snapshot` | the sections put together and pruned by the plugin, validated by the backend |
| `BridgeText` | `question.txt` and `answer.txt` as text: written, split into lines, read; the source pills |
| `Screenshot` | the daemon's capture, the helper, KWin and Spectacle |
| `Prompt` | one question from the keyboard to Claude and back, composing the last three; their properties; fairness; what is assumed of the game's data |
| `MCPrompt` | some 90 games and the limits TLC checks |
| `Folding` | lemmas on a fold with any operator: the only induction over data there is |
| `SnapshotProofs` | proofs about one snapshot: lists, escapes, sections, amounts, limits |
| `PromptProofs` | proofs about the screenshot, the text of a request, what is published and what Claude is asked |
| `AnswerProofs` | proofs about the text of an answer, from Claude's words to what the player sees |
| `PluginMigration` | DLL, sidecar and rollback copy; the daemon's migration, the grace thread, the installer; properties and inductive invariants |
| `MCPluginMigration`, `PluginMigrationProofs` | its instance and its proofs |
| `LiveContext` | the hooks, the snapshot, PluginInit and PluginShutdown on any thread, and as much of the engine as they depend on |
| `MCLiveContext`, `LiveContextProofs` | its instance and its proofs |
| `BackendStore` | the backend directories and the etag: update, confirm, roll back |
| `DaemonProcess` | daemon processes, the lock, `daemon.lock` and `daemon.ready` |
| `Launcher` | both launchers, composing the two; properties; the inductive invariant; the refinement mapping |
| `BackendTrial` | the abstract specification: a release on trial, one confirmed, what the game runs with |
| `MCLauncher`, `LauncherProofs` | its instance and its proofs |

### From code to model

*An action is what runs without a chance for the other side to interfere.*  In
the plugin that is a critical section of `ChatState::mutex`, or the rename that
replaces a bridge file, or the read of one.  `SubmitQuestion` in the code is
therefore two actions here: `SubmitQuestion` (under the mutex) and then
`WriteRequest`, `RequestNotWritten` (it returned false) or `RequestThrew` (it
threw, and `RenderPanel` swallowed the exception).  `CancelWaiting` and
`ResetConversation` are followed likewise by `WriteCancellation` or
`CancellationNotWritten`.  An iteration of `PollLoop` is `PollSnapshot`, then a
read (`PollReadMatches`, `PollReadMisses`, `PollReadThrew`), then `PollDelivers`,
`PollExpires` or `PollDrops`.  The local variables that survive from one to the
next are in `ui` and `poll`.

In the daemon an iteration of `main` is `TakeRequest` or `RetryPublishing`, then
`CaptureSucceeds`/`CaptureFails`, the outcome of `ask`, and `Publish`.
`TransientError` is the `OSError` branch of `process_request`, `UnexpectedError`
and `AnswerInternalError` the branch for any other exception.  `DaemonCrash` is
the end of the process at any point, `DaemonStart` the comparison of
`question.txt` with `answer.txt` at start-up, `DaemonStartsBlind` the same when
one of the two reads fails.

| variable | in the code |
|---|---|
| `question`, `answer`, `cancel` | the files, as the identity in the header, the kind of text, the error flag; `answer.body` is a history variable, the request the text was composed for |
| `messages`, `session`, `sequence`, `waiting`, `canRetry`, `lastQuestion` | the fields of `ChatState` |
| `overdue` | `now - waitingSince > RequestTimeout` for that sequence number |
| `ui`, `poll` | program counter and locals of the two threads |
| `daemon`, `job`, `seen`, `conversation` | place in the loop, the request at hand, `seen_request`, `Conversation` |

Abstractions:

* A question is one of five kinds, told apart only by what they say about web
  tools (`/web on`, `/web off`, a phrase that opts in or out, none of these).
  Its text is the subject of `Prompt`.
* Answers have no text, only the identity they were composed for.
* Session ids are numbered in the order they are made.  The code makes them from
  the clock and the process id; the model takes them to be unique.
* The `unread`, `status` and scrolling flags and the polling intervals have no
  influence on the properties; the context sent along is again in `Prompt`.
* Failing to delete `answer.tmp` after `answer.txt` was replaced is not
  distinguished from failing to write it.

### The abstract specification

`ChatService` has three variables: the transcript, the outstanding question, the
newest identity.  Its five actions are Ask, Reply, Fail, Abandon, NewChat.
`ChatBridge` maps `outstanding` to the current identity while `waiting`, and
`issued` to the current identity.  Every delivery of an answer must be a `Reply`
to the outstanding question, every error a `Fail`, and all the rest stutters.
`Fail` may come twice for one question: when the poll thread times out just
before a write that was under way fails.  It may never follow an answer.

`BackendTrial` is the abstract specification of updater and launchers, with the
release confirmed last, the one on trial and the backends that games run with, and
five actions Offer, Accept, Refuse, Play, Stop.  `Launcher` maps the confirmed release to
the one confirmed last, if it is on disk as backend or as its copy, and
the trial to a release in the backend directory that is not this one.  `Place` is an
Offer, `RemoveInstalled` a Refuse, `Confirm` an Accept, a Play or, after a restart,
nothing; downloading, moving directories, putting them back, the etag and all that daemons
do stutter.  Only good releases are accepted, only bad ones refused, none is older
than the one confirmed, and no game starts during a trial.

### One question in detail

`ChatBridge` has many questions and no contents; `Prompt` has one question at a
time and its contents.

| action of `Prompt` | in the code |
|---|---|
| `Sample` | `Capture` and `StoreSnapshot` on the game thread, for any of the games of `Worlds` |
| `Ask`, `Show`, `Read` | `SubmitQuestion` with `WriteRequest`; `ReadResponse` with `AddMessageLocked`; the player reads the message, or that the request timed out |
| `Take` | `read_request`, `parse_request`, `normalize_context`, and the start of `capture` |
| `TakePicture`, `Desktop` | the steps of `screenshot.py` and of the helper; those of KWin and Spectacle |
| `AskClaude`, `ClaudeAnswers`, `NoPicture` | `build_prompt` and the outcomes of `ask` and `capture_for_analysis` |
| `EndCapture`, `Publish` | the `finally` of `capture_for_analysis`; `write_answer` |

`Sections` has one operator for each function of `live_context.cpp` that writes a
section, under its name there.  The game is a record (`Worlds` are such records) whose
fields are the objects the code reads; a null pointer is `Null`.  A value that is copied
without a decision (a count, a flag, the name of an enumerator) is left out.
Names are sequences of bytes, because they are cut and escaped byte by byte.
`Snapshot` does what `Capture` does with the sections, the pruning of a snapshot
that is too large included, and what `validate_live_context` asks of it.  The
length of a JSON text is not computed: every part of a game has a length of its
own (`size`).

In `BridgeText` a text is a sequence of tokens: characters, and the marks of the
protocol as one token each.  The context mark is only ever written by the plugin,
and the JSON of a snapshot has no line break in it, which `NamesReadBack` checks.

In `Screenshot` a file is an inode, and an inode is the sequence of its bytes, each
named after the capture it was written for.  So a file that is removed and made anew under the
same name is not the one a late KWin still writes to.  KWin (`writers`) takes a
descriptor and writes byte by byte, leaving holes or not, for as long as it
likes; `Word` is the width of the integers in its reply.  The captures are
numbered, the first on KDE being the probe that `prepare` makes.  Spectacle is
external: it is assumed not to write after the daemon has stopped waiting for the
file (`LateSpectacle = FALSE`); section 5 says what happens otherwise.

### Migration of the plugin

`PluginMigration` has three files (`dll`, `sidecar`, `rollback`), the variant
`wanted` according to the Mod Loader's newest log, the program that is running,
the main thread and the migration thread of a daemon.  One action is one change
of a file, so that a kill (`End`) or an error (`Fail`) can come between any two.

| action | in `plugin_updater.py` |
|---|---|
| `Recover` | `recover_plugin` |
| `Sync` | `_sync_plugin_locked` up to its early returns, with `_recover_pending_plugin` |
| `BeginCommit` | the download is complete, the commit lock taken, the event looked at again |
| `BackUp`, `ReplaceDll`, `ReplaceSidecar` or `SidecarFails`, `Undo`, `CleanUp` | the statements of the commit, lines 239 to 251 |
| `Proceed`, `GraceExpires`, `Defer` | the main thread in `daemon.py`, lines 354 to 418 |
| `Install` | the installers up to their commit, which uses the same actions |

The commit lock is not a variable: it is held exactly while `worker.pc` is in
`Commit`, and `Defer` waits for that.  `Recover` and `Sync` change at most one
file under the lock and are one action each.  The file lock around a migration
and the daemon's own lock let only one program run at a time; the installers
take neither, but README.md asks to close the game first.  Downloads, temporary
files and the automatic update by the Mod Loader itself are left out.

### Live context

`LiveContext` has two threads of control.  `game` is what the game thread executes
of the DLL: it enters a callback (`EnterTick`, `BeginWorld`, `EndWorld`,
`RunPosted`), the callback does its work in one action (`OnEngineTick`,
`OnWorldBeginPlay`, `OnWorldEndPlay`, `UnregisterOnGameThread`), and `Return`
leaves the DLL; the state in between is what makes unloading dangerous.  `pc` and
`caller` are PluginInit or PluginShutdown and the thread that executes it: the
loader's startup thread while its splash is shown, later the game thread or any
other.  Each registration of a hook is an action and may throw (`InitThrows`),
each call of `PostToGameThread` is one.

A snapshot is abstracted to the world it was taken of, and every "unavailable"
snapshot to `None`; the points in time to two flags that say whether they are
reached.  The Mod Loader is external: it calls hooks on the game thread one at a
time, runs posted callbacks in order, and calls PluginInit and PluginShutdown
from one thread.  Two constants name what the code relies on without checking it:
`EarlyTicks` (the engine ticks while the splash is shown) and `WorldsEndMidway` (a
world ends while PluginInit or PluginShutdown has some of the hooks registered).
The runs set both to FALSE.

`PostThrows` is what the host may do: `PostToGameThread` may throw, as the comment in
`Initialize` expects of the registrations.  `PostThrowsOut` is either of the two calls in
`Shutdown` doing so.  The exception leaves `Shutdown`, `PluginShutdown` swallows it and
returns: the hooks stay registered, or the clean-up stays queued without the event
set after it, and `g_registered` stays true.  The history variable `escaped` records
it and bounds it to once in a behaviour.  The DLL is followed as one that stays
mapped; a later PluginInit finds `g_registered` and returns (`AlreadyRegistered`), a
later PluginShutdown tries again.  `TypeOK`, `NoDanglingWorld`, `QuietWhenDown` and
`Sampled` promise what they do until then; `SnapshotOfThisWorld` and `ShutdownEnds` hold in
any case; section 6 has what an exception leaves behind.  The runs set `PostThrows`
to TRUE.

### Launchers and updater

| action | in the code |
|---|---|
| `Launch`, `UpdateStep` | `updater.py`, one action per change of a directory or of `backend.etag` |
| `UseInstalled`, `UseCheckout`, `SyncFails` | the choice of a backend, `run-with-companion.sh:32-42`, `.ps1:25-55` |
| `StartDaemon`, `SeeIdentity`, `SeeReady`, `NotReady` | `start_daemon`, the two reads of `wait_for_daemon`, its failure with `stop_daemon` |
| `RollbackStep`, `Confirm` | `updater.py --rollback`, `--confirm` and the start of the game |
| `DaemonEnded`, `GameEnds` | the loop while the game runs, and what follows it |
| `Kill` | the launcher is killed, the daemon stays |
| `Spawn` ... `CloseLock`, `Die` (`DaemonProcess`) | `acquire_lock`, `publish_lock_identity`, the writes of `daemon.ready`, the `finally` clause, the end of a process |

The variable `windows`, chosen once, tells the two launchers apart where they
differ: the bash launcher also looks whether the lock is held, and it alone rolls
a backend back that fails after the game was started.  An identity (process id
and nonce) is abstracted to the process; `Fresh` says that a new one differs from
every identity still on disk.  Releases are numbers, the etag is the number of a
release, and `Good` are the releases whose daemon becomes ready.  `Broken` is a
directory that lacks files, as a removal leaves it that fails or is cut short.

Five constants say what may go wrong.  `Flaky`: good backends may fail, removals
may fail, launchers may be killed.  `CutRollback`: also between the last two steps
of a roll-back.  `SharedRead`: the Windows launcher can read a file that another
process has open for writing.  `StderrStops`: Windows PowerShell ends a script, whose
`$ErrorActionPreference` is `"Stop"`, at the first line of a native program on a
redirected stderr.  `Good`: see above.

`updater.py` writes such a line when an update is skipped (`UpdateSkipped`: no GitHub,
an archive that is refused, a directory that cannot be moved) and when a roll-back
fails (`RestoreFails`); then `AfterMessage` ends the Windows launcher if `StderrStops`,
which all runs set to TRUE.  That `taskkill` writes to it is not told
apart from `Kill`.

## 3. Runs

| run | instance | shows |
|---|---|---|
| `chat` | 1 kind of question, 4 sequence numbers, 2 chats, 4 messages, history of 2, 1 crash | retries, cancellations, restarts; refinement of `ChatService` |
| `web` | 5 kinds, 3 sequence numbers, 2 chats, no crash | `/web off` is respected |
| `web_crash` | 2 kinds, 1 chat, 1 crash | *violated*: see section 6 |
| `liveness` | 1 kind, 3 sequence numbers, 2 chats, 3 messages, history of 1, 1 crash, reads at start-up may fail, fairness | every wait ends; every question on disk is answered or replaced; what holds although a request may be answered twice |
| `prompt` | 3 platforms, some 90 games, 3 questions, up to 6 outcomes, 5 replies of KWin, 2 captures and the probe (1 on Windows), fairness | what Claude is asked is of this moment; nothing is left out unlisted; question and answer arrive; no picture is left |
| `migration` | 2 variants, the loader changes only while the pair is complete, fairness of the main thread | recovery from every interruption; the grace period; the wanted plugin is installed in the end if the user retries |
| `migration_midway` | loader changes at any time | *violated*: see section 6 |
| `live` | 2 worlds, 3 threads, `PostToGameThread` may throw, fairness | no stale world, no stale snapshot, nothing runs in an unloaded DLL unless it threw; shutdown ends; a world that is played on is sampled |
| `launch` | both launchers, 3 processes, 2 releases of which the second is bad, `Flaky` | readiness is one's own; no update is missed |
| `launch_steady` | 3 releases of which the second is bad, only bad ones fail, fairness | refinement of `BackendTrial`: the valid backend is kept; the game starts again |
| `launch_windows` | the same, `SharedRead = FALSE` | *violated*: see section 6 |
| `launch_offline` | as `launch_steady`, no archive is ever downloaded from some time on | *violated*: see section 6 |

Bounds.  `MaxSequence` bounds the sequence numbers of one plugin process: with 4
a chat has up to three questions, cancellations or resets, enough for a stale answer, a
stale cancellation and a live request to exist at the same time.  `MaxSessions`
2 gives one New chat or one restart of the game.  `MaxMessages` (100 in the
code) is 4, so the transcript overflows; `HistoryTurns` (6) is 2, so the history
does.  `MaxCrashes` bounds crashes of the daemon.  The models stop when the
bounds are used up and the daemon has nothing to do, so deadlock is not an error
(`CHECK_DEADLOCK FALSE`).  The proofs assume no bound.

`PluginMigration` needs no bounds: with the two variants the code has, its state
space is finite and checked completely.  `LegacyStarts` and `ReadyIsQuiet` hold with
`MidwayChanges = TRUE` as well.

In `Prompt` every limit of the code is a constant and is scaled down so that some
game lies below it, at it and above it: lists of 1 to 4 entries, names of 5
bytes, snapshots of 48 units instead of 48 KiB with the requests of 64 and
contexts of 56 in proportion.  The games are one that is played on, and others
that differ from it in one respect (a list, a name, a missing object, the size of
a part) or two.  Integers of KWin's reply are below `Word = 32`, and one reply has
a size that does not fit.  KDE is run with one game and all the behaviours of KWin and
Spectacle; Windows, which needs neither, with all the games, questions and line
ends.  The size of `answer.txt` is counted in tokens, and `MaxResponseBytes` (256 KiB)
is 37 of them: Claude's answers make files of exactly 37, on Linux and on Windows,
and of one more.  Three values of the clock are enough for a snapshot to age while the
question is on its way.

In `LiveContext` two worlds are enough for one to begin while another is hooked;
queue and hooks need no bound.  In `Launcher` three processes give an orphan that
holds the lock, one whose identity is still on disk, and the launcher's own; two
releases give a bad update of a good backend, the third a good one after it.
Launches are not bounded, so neither model stops and deadlock is checked in both.
`Prompt` stops when the captures are used up, and deadlock is not an error there.

Properties of `ChatBridge`:

* `AnswersFollowTheirQuestion`: every reply stands right below its question, and
  nothing is said about a question after its answer.
* `RetryRepeatsTheLastQuestion`: when nothing is outstanding and the last word is
  not an answer, Retry is there and repeats the question shown last.
* `CancelSparesTheLiveRequest`: an old `cancel.txt` never hits a retried question.
* `AnswerBelongsToItsRequest`, `NoCrossChatContext`: the daemon mixes neither
  answers nor chats, whatever is retried.
* `NoWorkForPublishedAnswer`: a request whose answer is on disk is not worked on
  again.  Two properties of `ChatBridge` are not checked by a run, because this one
  and the inductive invariant have them as a consequence, but proved: `SeenIsOnDisk`
  (what the daemon takes for handled has its answer on disk) and `PublishedInOrder`
  (`answer.txt` only moves on to newer requests).
* `WebOffKeepsChatOffline`: what README.md promises of `/web off`.
* `WaitingEnds`, `QuestionIsAnswered`: liveness.

Properties of `Prompt`:

* `ShotIsOfThisQuestion`, `NothingLeftBehind`: a picture that is analyzed is whole
  and made for this question; between questions none is left.
* `HelperReportIsAccepted`: helper and daemon compute the same size and find it.
* `PromptIsOfThisMoment`: picture, words, snapshot and label in a prompt belong
  together.
* `SnapshotReachesClaude`: what the plugin writes the backend understands, whatever
  is in it.
* `AnswerArrives`: so does the plugin what the daemon writes, and no answer is lost but
  one whose file is above the 256 KiB that the plugin reads (`bridge.cpp:181`).
  No limit of the daemon keeps an answer below that; the player then waits until the
  request times out and may ask again (`Read`).
* `OmissionsAreListed`: README.md:163 promises that missing sections are listed;
  so is every section that shows less than there is.
* `AmountsAreTrue`, `NamesReadBack`: what a section does show.
* `QuestionIsAnswered` (of `Prompt`): every question that is sent is understood and
  answered, and the answer shown, or lost as `AnswerArrives` says; no wait of the daemon
  is without end.

Properties of `PluginMigration`:

* `KeepsPair`: the DLL the sidecar names is installed or in the rollback copy.
* `PairAgrees`: a migration that ends well leaves a matching pair.
* `ReadyIsQuiet`: after the daemon is ready its migration changes nothing.
* `LegacyStarts`, `Migrates`: an old launcher is not blocked; the wanted plugin
  is installed in the end.

Properties of `LiveContext`:

* `NoDanglingWorld`, `SnapshotOfThisWorld`: the hooks hold no destroyed world, and
  questions carry no snapshot of another one than that being played.
* `QuietWhenDown`: after PluginShutdown nothing is left that could run in the DLL, unless
  an exception of `PostToGameThread` has left it.
* `ShutdownEnds`, `Sampled`: liveness.

Properties of `Launcher`:

* `ReadyFileIsOwners`: no daemon takes over or deletes the readiness of another.
* `GameNeedsReadyDaemon`: the game is started after the launcher's own daemon was
  ready, whatever older ones left behind.
* `NoMissedUpdate`: when GitHub is asked, the etag names no newer release than the
  one installed.
* `ImplementsTrial`: an update with all its steps is a trial as in `BackendTrial`.  Not
  checked by a run, since it follows from this one, but proved: `ValidBackendKept` (the last
  confirmed backend stays on disk until another is confirmed).
* `GameStarts`: once the releases are good, the game starts again and again; on Windows,
  if `StderrStops`, only once no update is skipped with a message.
* `GameStartsOffline`: so it does once no archive is downloaded any more, with the backend
  that is there or the checked-out copy; `launch_offline` refutes it.

Each property has a mutant in `PROJECT.json`: a plausible bug in one definition
that makes TLC find the property violated.

### Fairness

`FairSpec` assumes weak fairness of the passing of time, of the poll thread, and
of the daemon's loop including its start, because both loops run for as long as
their process does and the launcher restarts a daemon that ends.  Reads of
`answer.txt`, and the daemon's capture, ask and publish steps, compete with an
exception or a transient `OSError` that sends them round the loop again; strong
fairness says that such an error does not win every single time.  It does not say
that it is rare.  Claude's process is bounded by the timeouts of `ask`.  Nothing
is assumed of the player, nor of the render thread: `WaitingEnds` holds even if
`question.txt` is never written.  If the launcher's own wait for a restarted
daemon fails, it gives up and the game goes on without one; `WaitingEnds` is
then still the poll thread's business, `QuestionIsAnswered` is not claimed.

`Spec` of `Prompt` assumes weak fairness of the steps of plugin and daemon.  That
of `Exchange` is written out with `CanExchange` for `ENABLED`, which TLC would
evaluate by computing every text again.  A wait of the daemon (for the helper, for
KWin's answer, for the file, for Spectacle, for Claude) has a step that ends it by
its time limit; weak fairness says that one of the steps of the wait is taken,
which one is left open.  Nothing is assumed of the desktop: KWin and Spectacle may
never do anything.

`FairSpec` of `PluginMigration` assumes only that the main thread runs and that the file
operations of a commit end; the migration thread may hang anywhere else.  `Migrates`
has a premise of its own, `Retries`: the user starts the game again and again with a
current launcher, in an environment in which no step fails, or is cut off, every time.

`FairSpec` of `LiveContext`: callbacks end, the engine goes on ticking and the
loader running what was posted between its other work (strong fairness, since
worlds begin and end as well), PluginShutdown runs, time passes.  A capture that
throws stores no snapshot; that this does not happen every time is strong fairness
of a sampling tick.

`FairSpec` of `Launcher`: the user launches again and again and the launcher's
script goes on; a daemon goes on starting; two minutes are enough for a good
daemon (strong fairness of seeing it ready) and end for one that is not (strong
fairness of `NotReady`).  Nothing is assumed of GitHub: it may never be reached.

## 4. Proofs

All proofs are checked by `tlapm`.  They assume nothing but the named assumptions
on the constants, each of which TLC evaluates in every run of the module.  Most say
that a bound is a number and a limit positive.  The others:

* `QuestionsAssumption` of `PluginChat`: the questions that switch the web mode are
  not the absence of a question.
* `ScreenshotAssumption`: the fields of a reply are below `Word`.
* `SnapshotAssumption`, `PromptAssumption`: the plugin's limits are within those of
  the backend: 48 KiB and a label below 49 (`ai_backend.py:46`) and below 56
  (`daemon.py`), 128 items of an inventory and 32 of an actor below 256.
* `WorldsAssumption`: an array of the game is an array; a text of the engine,
  converted, is UTF-8 (or null); item types have names that differ also in the
  first 128 bytes; a store lists every type that is held; lengths are numbers.  The
  last but one is what the code relies on when it reads amounts for the entries of
  the store only.  A game that broke it would show a smaller amount.
* `RoomAssumption`: when all that can be pruned was, the rest is below 48 KiB.  The
  code has a branch for the opposite, which section 5 leaves out.
* `NullAssumption`: a section that was built is not a null pointer.
* `QuestionsAssumption` of `Prompt`: a question is a sequence of characters.
* `AnswersAssumption`: what `parse_structured_response` lets through
  (`ai_backend.py:577-606`): an answer that is not blank and does not hold the mark of
  the sources; a heading of one line without it (`:589-597`); at most
  `MAX_SOURCES` labels (`:510`), each a host name or a name from the table of known
  sites, so one line, nothing to strip, and not the word that ends the file.

For `ChatBridge`, with any limits:

* `TypeCorrect`: `Spec => []TypeOK`, with the transcript and the history within
  their limits.
* `Inductive`: `Spec => []IInv`.  The safety properties are not inductive: that a
  reply stands under its question depends on what the poll thread holds, that on
  `answer.txt`, that on the daemon's job, and so on.  `IInv` follows the path of
  an identity through the system and says that it only moves forward: the current
  identity is at least that of `question.txt`, which is at least that of the
  daemon's job, which is at least that of `answer.txt`, which is `seen`, which is
  at least every identity of the history; the poll thread holds an identity that
  is current or has a smaller sequence number.  `IInv` is the conjunction of one
  named part per place (`RenderThreadInv`, `TranscriptInv`, `PollThreadInv`,
  `AnswerInv`, `JobInv`, `HistoryInv`); the proof has one lemma for the steps of
  each process and in it one step per action and part.
* From it: `RepliesInPlace`, `CancelIsPrecise`, `AnswerIsGenuine`,
  `SeenIsPublished`, `ChatsAreSeparate`.
* `WorkedOnce` and `AnswersMoveForward` need `FirstTimeInv` as well, and that the
  reads at start-up succeed (`~FlakyReads`): otherwise they are false.
* `Implementation`: `Spec => ImplementsService`, step by step.
* `RetryIsOffered`, if `MaxMessages > 2`, from `RetryInv`: the question shown last is
  one of the last three messages whenever the button is there, because two errors
  at most follow a question.  A shorter transcript could lose it.
* `WebOffIsKept`, if `MaxCrashes = 0`, from `WebInv`.  `TranscriptKnows` says that the
  question on disk stands in the transcript with its text, below every older
  question still shown; `ModeInv` says that once
  the daemon has *taken* a `/web off` that stands (it is the job, pending,
  published, or read by the poll thread) its web mode is off.  A step that
  switches the mode on takes a `/web on` from disk, which by `TranscriptKnows` stands below the
  `/web off`.  With crashes the theorem is false (`web_crash`).

For `Prompt`, with any replies, limits, games and bounds:

* `ReportsAreAccepted` from `RawInv`: a raw file has an inode of its own since the
  name is removed before each capture, so at most one writer of this capture
  changes it, and all that is in it is of this capture.  That the size is right
  follows from both ends computing it without wrapping.
* `ShotIsCurrent` and `NothingIsLeft` from `ShotInv`, if `LateSpectacle = FALSE`:
  at each place of the daemon, which files may exist and of which capture they are.
* `PromptTypes` from `ExchangeInv`.
* `NamesAreReadBack`, `OmissionsAreTold` and `AmountsAreRight` from `PublishedInv`,
  which only says that what is published is `Capture(w)` of a game `w`.  The work
  is in lemmas about `Capture` for every game.  For names: cutting UTF-8 at a byte
  limit leaves whole characters (`TruncatedText`), every escape sequence is read
  back as its byte (`LoadEscape`, `LoadReadsBack`).  For omissions: the two lists hold
  exactly the sections flagged by the loop, and all that pruning takes
  (`SectionLists`); a section that is not listed shows everything
  (`SectionComplete`, with one lemma for each section that has a limit).  For
  amounts: `AmountOfName`; a total over a finite set does not depend on the order,
  nor on entries that come twice and count once (`TotalSame`, `TotalRemove`).
* `SnapshotArrives` from `QuestionInv`, which follows a question on its way: what is
  in the request file is what `WriteRequest` makes of the trimmed question and the
  snapshot published then; once it is taken, `parsed` holds that question and that
  context; once Claude is asked, the prompt does.  It needs two groups of lemmas.
  `SnapshotAccepted`: `validate_live_context` accepts every snapshot the plugin
  publishes, at any time from then on.  `RequestParsed`, `LiveKept`: `ParseRequest`
  finds in the text that `WriteRequest` makes the fields it was made of, for every question,
  whatever characters it consists of (`HeaderFields`: bars in a question are not
  separators; `ContextRead`: lines come back as they were written), and
  `NormalizeContext` keeps the context of the plugin whole.
* `PromptIsCurrent` from `MomentInv`, that is `QuestionInv`, `ShotInv` and that the
  picture of the prompt is of the last capture; if `LateSpectacle = FALSE`.
* `AnswerReturns` from `AnswerInv`: `request.reply` is what `RenderAnswer` makes of
  Claude's answer, or the failure, and once it is published `answer.txt` is what
  `WriteAnswer` makes of that.  The work is `SaidArrives`: what `ReadResponse` and
  `SplitSources` make of such a file.  Any text is a list of lines without a break,
  joined (`LinesExist`).  `write_response` guards each line that is the end
  of a file; Python writes each line end as Windows has it, the plugin takes the
  carriage return off again, and what one line gets on the way (`NetOf`) changes none
  of what can be seen (`TextReceived`, `AnswerRead`, `VisibleNet`).  The first
  four lines are the fields of the protocol and the end of the file is its last line
  (`AnswerFields`, `AnswerLines`).  The mark of the sources is found where it was put,
  because neither advice nor heading has it (`MarkFound`), and the lines after
  it are the heading and the labels, all of them (`PillsShown`).  A file above
  `MaxResponseBytes` is not read at all: that is the one case in which the theorem says
  that the answer is lost, and only then.

Induction over data.  The library's induction theorems have an operator as a
parameter, which no installed prover instantiates.  These proofs use a *set* in its
place: a set of natural numbers that has 0 and with `n` also `n + 1` holds all of
them (`Induction`), and a set of subsets of `S` that has `{}` and with a set also
every larger by one element holds `S`, if that is finite (`FiniteInduction`).
`Folding` declares the operator of a fold as a constant, defines the fold by the
definitions of the community modules, and proves what holds of any: it exists, it goes
from left to right, an invariant of its steps holds at its end.  Each loop of the
code has an instance of it with its own operator (`Naming`, `Cutting`,
`Tracking`, ...).

For `PluginMigration`, with any set of variants:

* `MigrationTypes`, and `QuietAfterReady` from `ControlInv`: a daemon that is
  ready has no migration thread left that could pass another look at
  `cancel_event`.
* `PairSurvives` and `PairCompleted` from `PairInv`, under the assumption
  `MidwayChanges = FALSE`: if the DLL is not the one the sidecar names, it is the
  one wanted, and the one the sidecar names is the rollback copy.  Without the
  assumption both are false, as the run `migration_midway` shows.

For `LiveContext`, with any set of worlds:

* `UnloadIsSafe` and `LiveTypes`, if `EarlyTicks = FALSE`, from `CallerInv` (which
  thread may be inside PluginInit or PluginShutdown, and that then the game thread
  is not in the DLL) and `BarrierInv` (how far the posted clean-up got for each
  state of queue, event and game thread).  `BarrierInv` holds until an exception
  of `PostToGameThread` leaves `Shutdown`, and so does what it implies.
* `EscapesElsewhere` says when that can be: only while another thread than the game's
  or the startup thread shuts the plugin down.  On those two the promise of
  `UnloadIsSafe` is not at risk, since they post nothing.
* `WorldIsAlive` from `WorldInv`, if also `WorldsEndMidway = FALSE`: the world held
  is alive because the hook for its end is registered whenever it is held.  It too
  is about the time before such an exception, which may leave a world held by
  hooks of which the one for its end is missing.
* `SnapshotIsCurrent` needs none of these assumptions.

For `Launcher`, with any processes, releases and good releases, and `Flaky` or not:

* `LauncherTypes`, and `ReadinessIsOwned` from `OwnersInv`: the identity is in
  `daemon.lock` before `daemon.ready` is written, both under the lock.
* `GameAfterReady` from `ServedInv`: an identity in `daemon.ready` is that of a
  daemon that was ready, because new identities are not on disk.
* `UpdatesAreSeen` from `EtagInv`, if `CutRollback = FALSE`: the etag compared with
  the release unpacked, installed or restored at each step of an update.
* `ValidBackendStays` (`ValidBackendKept`) from `AloneInv` and `CopyInv`, if `Flaky =
  FALSE` and `SharedRead = TRUE`: without kills the daemon that runs is the
  launcher's own, so a good one becomes ready; and the copy of the confirmed backend
  is there at each step until the new one is confirmed.
* `LauncherImplements`: `Spec => ImplementsTrial`, step by step, under the same two
  conditions and from the same invariants.  `CopyInv` says where the confirmed release
  is at each step, that only a bad one is removed, and that the one unpacked or
  installed is not older.  With kills or removals that fail it is false: a directory may
  be left without its files, and a launch may replace a release before it was
  tried.

Each invariant and each action property that a run checks has a theorem.  Only
model-checked is what is left:

* Liveness (`WaitingEnds`, both `QuestionIsAnswered`, `Migrates`, `LegacyStarts`,
  `ShutdownEnds`, `Sampled`, `GameStarts`): a proof needs fairness and ENABLED,
  which `tlapm` does not reason about.

## 5. Not modelled

See `PROJECT.json` for each component and the reason.  In short:

* The panel's layout, its open and unread flags, the input buffer, the
  confirmation of New chat; downloads; the discovery of directories.
* Claude's process: its JSON and the URLs of its sources are accepted or not.
* Snapshot values copied without a decision, and the last branch of the pruning
  (a snapshot of nothing but its state), which the sizes of the parts left by then
  do not reach.
* A Spectacle that hands over to a running instance, ends, and has that write
  `shot.png` after the five seconds the daemon waits for it
  (`screenshot.py:301`).  With `LateSpectacle = TRUE` `ShotIsOfThisQuestion` and
  `NothingLeftBehind` are violated; whether Spectacle does this is not known here.
* An error while reading the sidecar other than that there is none
  (`plugin_updater.py:95-97`), and a failing removal of `backend.etag` before a download.
* A daemon that is killed between the new desktop entry and the removal of its
  marker (`screenshot.py:148`): `Prompt` has no crashes.
* A question of nothing but a space that Python strips and `std::isspace` does not
  (`daemon.py:204`): `BridgeText` has the space, the questions of the run always
  hold more.

Assumed of the environment: renaming a file replaces it atomically, also across
Wine; the plugin and the daemon see each other's renames in order.

## 6. Findings

**The web mode is lost when the daemon restarts.**  README.md:147 promises "`/web off` keeps the current chat offline", and
README.md:27 calls the mode persistent.  The mode is a field of `Conversation`
(`daemon.py:58`), which `main` creates anew (`daemon.py:424`) whenever the daemon
starts; the launcher restarts a daemon that ends while the game is running
(`run-with-companion.sh:152-179`), and the chat goes on with the same session id
and web tools enabled.  Run `web_crash` shows it: ask `/web off`, get the answer,
let the daemon crash and restart, ask a plain question.

**An incomplete migration is forgotten when the loader goes back.**
README.md:127: "Incomplete migrations are detected and retried before the game
starts."  Run `migration_midway`: a migration from A to B is cut off after the
DLL was replaced and before the sidecar was (`plugin_updater.py:242-244`); then
the Mod Loader goes back to A.  `_recover_pending_plugin` compares the sidecar
(A) with the variant wanted now (A), takes the migration for complete, and
deletes the rollback copy, the only DLL A there is (line 183).  DLL B stays next
to sidecar A, and no later launch sees anything to do.

**The Windows launcher cannot see that its daemon is ready.**  It reads
`daemon.lock` with `[System.IO.File]::ReadAllText` (`run-with-companion.ps1:135`),
which opens a file with `FileShare.Read`.  Windows refuses that while another
process has the file open for writing, and the daemon has it open from
`daemon.py:113` to its end, with its first byte locked (`:121`).
`Read-CompanionState` swallows the error, the wait ends after two minutes, the
backend is rolled back and the game is not started, although README.md:104 has the
Windows user launch the game this way.  The launcher tests for Windows pass
because their daemons write `daemon.lock` and close it
(`tests/test_launcher.py:158`).  The sharing rule is that of the platform, not
something this directory can check: the run `launch_windows` states it as
`SharedRead = FALSE` and shows what follows.  `Reset-LegacyCompanionState` in the
same script opens the file with `FileShare.ReadWrite`.

**Without GitHub the Windows launcher does not start the game.**  README.md:134: "If
GitHub is unavailable, the last valid downloaded backend—or the checked-out copy—is
used."  `run-with-companion.ps1` sets `$ErrorActionPreference = "Stop"` (line 7) and runs
`updater.py` with its stderr redirected into `updater.log` (`:21-22`).  In Windows
PowerShell 5.1, which `run-with-companion.cmd` starts, a line that a native program
writes on a redirected stderr is an error record, and under `"Stop"` the first one ends the
script.  `updater.py:218` writes "update skipped" there whenever the download fails.
The script knows the rule, for it sets `"Continue"` around `uv sync` (`:29-31`), but not
around the updater.  Run `launch_offline` takes the rule as given (`StderrStops =
TRUE`) and finds the launches that end with the message for ever; with `StderrStops =
FALSE`, as in the bash launcher, `GameStartsOffline` holds.

Not findings of a run, but worth knowing; `PROJECT.json` has them among the hazards:

* A bad release is downloaded, tried and rolled back by every launch until a
  better one appears, because the roll-back forgets the etag; none of these
  launches starts the game unless, on Linux, GitHub is out of reach.
* An exception in the roll-back leaves hooks behind.  The comment at
  `live_context.cpp:1773-1774` says that "an exception from a later host-side vector
  allocation rolls back every hook".  PluginInit rolls back by PluginShutdown, and on a
  thread that is neither the game's nor the startup thread `Shutdown` must post its
  clean-up (`:1802`, `:1809`).  If the host cannot allocate for that either, the
  exception leaves `Shutdown`; `PluginShutdown` swallows it (`plugin.cpp:888`) and
  returns with hooks registered, or with the clean-up queued and nobody waiting for
  it, with the event open, and without the calls that follow `Shutdown` (`:866-886`),
  the stop of the poll thread among them.  With `PostThrows = TRUE`, `hooks = {}`
  does not hold whenever the plugin is down: the tick hook is registered, the next
  registration throws, and so does the first post.
* An answer of more than 256 KiB is published by the daemon and ignored by the plugin
  (`AnswerArrives`).
* A confirmed backend has no copy.  If `uv` fails once, or on Linux a restart
  during the game takes too long, it is removed.
* A launcher killed between `updater.py:191` and `:192` leaves an etag that hides
  the next download.

## 7. Plan

1. *Done*: chat bridge.
2. *Done*: `PluginMigration`.
3. *Done*: `LiveContext`.
4. *Done*: `Launcher` with `BackendStore` and `DaemonProcess`.
5. *Done*: `Prompt` with `Sections`, `Snapshot`, `BridgeText` and `Screenshot`.
6. *Done*: the proofs of `ValidBackendKept`, `RetryRepeatsTheLastQuestion` and
   `WebOffKeepsChatOffline`; the proofs about the text of snapshot, request and answer.
   Every invariant of a run has a theorem now.
7. *Done*: `BackendTrial`, the abstract specification of the backend store, and that
   `Launcher` implements it.  Left: backends without the readiness protocol; a
   second launcher at the same time.
8. `ai_backend.ask` in more detail: the process, its timeouts, the cancellation
   watch, the retry without web tools within one overall deadline.
9. Crashes of the daemon in `Prompt`.
