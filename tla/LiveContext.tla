---------------------------- MODULE LiveContext ----------------------------
(***************************************************************************)
(* The state of the game that a question carries along (live_context.cpp). *)
(* Hooks on the game thread keep a pointer to the world being played, and   *)
(* every so often store a snapshot of it, which the render thread copies.   *)
(*                                                                         *)
(* The Mod Loader loads and unloads the plugin from its startup thread      *)
(* while its splash is shown, later from the game thread or from another    *)
(* one.  After PluginShutdown has returned it may unmap the DLL: no hook    *)
(* may be left, and the game thread must not be inside the DLL.             *)
(***************************************************************************)
EXTENDS Sequences
CONSTANTS
    Worlds,             \* UWorld objects
    None,               \* no world, no snapshot, no thread
    EarlyTicks,         \* the engine ticks while the splash is shown
    WorldsEndMidway,    \* a world may end while only some hooks are registered
    PostThrows          \* the loader's PostToGameThread may throw, once

ASSUME LiveAssumption ==
    /\ None \notin Worlds
    /\ None \notin {"loader", "game", "other"}
    /\ EarlyTicks \in BOOLEAN /\ WorldsEndMidway \in BOOLEAN /\ PostThrows \in BOOLEAN

VARIABLES
    splash, alive, current, pawn,   \* the engine: its worlds, GetWorld, the player
    hooks, queue,                   \* callbacks registered, and posted
    game,                           \* what the game thread executes of the DLL
    registered, world, snapshot,    \* g_registered, g_world, g_snapshot
    sampleDue, probeDue,            \* g_nextSampleAt, g_nextWorldProbeAt are reached
    gameThreadId, registrationThreadId, registeredDuringStartup,
    cleanupEvent,
    pc, caller,                     \* PluginInit or PluginShutdown, and its thread
    escaped                         \* history: an exception has left Shutdown

engine == <<splash, alive, current, pawn>>
loader == <<hooks, queue>>
cache == <<world, snapshot, sampleDue, probeDue>>
threads == <<registrationThreadId, registeredDuringStartup>>
host == <<pc, caller, escaped>>
vars == <<engine, loader, game, registered, cache, gameThreadId, threads,
          cleanupEvent, host>>

Threads == {"loader", "game", "other"}
Pawns == {"none", "initializing", "ready"}
Callbacks == {"tick", "begin", "end"}
Registering == {"init", "tick", "begin", "end"}
Stopping == {"stop", "post", "wait", "close"}

InCall == pc \notin {"down", "up"}

Doing(what, w) == [does |-> what, world |-> w]
Resting == Doing("nothing", None)
Returning == Doing("return", None)

Init ==
    /\ splash = TRUE
    /\ alive = {} /\ current = None /\ pawn = "none"
    /\ hooks = {} /\ queue = << >>
    /\ game = Resting
    /\ registered = FALSE /\ world = None /\ snapshot = None
    /\ sampleDue = TRUE /\ probeDue = TRUE
    /\ gameThreadId = None /\ registrationThreadId = None
    /\ registeredDuringStartup = FALSE
    /\ cleanupEvent = "none"
    /\ pc = "down" /\ caller = "loader" /\ escaped = FALSE

---------------------------------------------------------------------------
(* The game thread.  It enters one callback at a time, and not while it     *)
(* executes PluginInit or PluginShutdown itself.                            *)

GameThreadIsFree ==
    /\ game = Resting
    /\ EarlyTicks \/ ~splash
    /\ caller = "game" => pc \in {"down", "up"}

\* RecoverCurrentWorld
CurrentWorldWithPlayer == IF pawn = "none" THEN None ELSE current

OnlyHookedWorld == None                 \* mutant of RecoverWorld: no probing
RecoverWorld == IF probeDue THEN CurrentWorldWithPlayer ELSE None

\* Capture of world w; it may throw.
Captured(w) == {None} \cup IF w = current /\ pawn = "ready" THEN {w} ELSE {}

EnterTick ==
    /\ GameThreadIsFree
    /\ "tick" \in hooks
    /\ game' = Doing("tick", None)
    /\ UNCHANGED <<engine, loader, registered, cache, gameThreadId, threads,
                   cleanupEvent, host>>

OnEngineTick ==
    /\ game.does = "tick"
    /\ gameThreadId' = "game"
    /\ world' = IF world = None THEN RecoverWorld ELSE world
    /\ probeDue' = (probeDue /\ world # None)
    /\ IF world' # None /\ (sampleDue \/ world = None)
       THEN sampleDue' = FALSE /\ snapshot' \in Captured(world')
       ELSE UNCHANGED <<sampleDue, snapshot>>
    /\ game' = Returning
    /\ UNCHANGED <<engine, loader, registered, threads, cleanupEvent, host>>

\* The engine starts to play a world.
BeginWorld(w) ==
    /\ GameThreadIsFree
    /\ w \notin alive
    /\ alive' = alive \cup {w} /\ current' = w /\ pawn' = "none"
    /\ game' = IF "begin" \in hooks THEN Doing("begin", w) ELSE game
    /\ UNCHANGED <<splash, loader, registered, cache, gameThreadId, threads,
                   cleanupEvent, host>>

OnWorldBeginPlay ==
    /\ game.does = "begin"
    /\ gameThreadId' = "game"
    /\ world' = game.world
    /\ snapshot' = None
    /\ sampleDue' = TRUE
    /\ game' = Returning
    /\ UNCHANGED <<engine, loader, registered, probeDue, threads, cleanupEvent, host>>

Destroy(w) ==
    /\ alive' = alive \ {w}
    /\ IF w = current
       THEN current' \in {None} \cup alive' /\ pawn' = "none"
       ELSE UNCHANGED <<current, pawn>>

\* The engine ends a world: it calls the hook, if there is one, and destroys it.
EndWorld(w) ==
    /\ GameThreadIsFree
    /\ w \in alive
    /\ WorldsEndMidway \/ ~InCall \/ hooks \in {{}, Callbacks}
    /\ IF "end" \in hooks
       THEN game' = Doing("end", w) /\ UNCHANGED <<alive, current, pawn>>
       ELSE Destroy(w) /\ UNCHANGED game
    /\ UNCHANGED <<splash, loader, registered, cache, gameThreadId, threads,
                   cleanupEvent, host>>

ForgetOthers(w) ==                      \* mutant of ForgetWorld: comparison inverted
    IF w # world
    THEN world' = None /\ snapshot' = None /\ probeDue' = FALSE
    ELSE UNCHANGED <<world, snapshot, probeDue>>

KeepSnapshot(w) ==                      \* mutant of ForgetWorld
    /\ world' = IF w = world THEN None ELSE world
    /\ UNCHANGED <<snapshot, probeDue>>

ForgetWorld(w) ==
    IF w = world
    THEN world' = None /\ snapshot' = None /\ probeDue' = FALSE
    ELSE UNCHANGED <<world, snapshot, probeDue>>

OnWorldEndPlay ==
    /\ game.does = "end"
    /\ gameThreadId' = "game"
    /\ ForgetWorld(game.world)
    /\ Destroy(game.world)
    /\ game' = Returning
    /\ UNCHANGED <<splash, loader, registered, sampleDue, threads, cleanupEvent, host>>

\* UnregisterOnGameThread, whichever thread calls it.
UnregisterHooks ==
    IF registered
    THEN hooks' = {} /\ registered' = FALSE /\ world' = None
    ELSE UNCHANGED <<hooks, registered, world>>

\* The loader runs the callbacks that were posted, in order.  SetEvent is not
\* part of the DLL.
RunPosted ==
    /\ GameThreadIsFree
    /\ queue # << >>
    /\ queue' = Tail(queue)
    /\ \/ /\ Head(queue) = "unregister"
          /\ game' = Doing("unregister", None)
          /\ UNCHANGED cleanupEvent
       \/ /\ Head(queue) = "SetEvent"
          /\ cleanupEvent' = "set"
          /\ UNCHANGED game
    /\ UNCHANGED <<engine, hooks, registered, cache, gameThreadId, threads, host>>

UnregisterAndSignal ==  \* mutant of UnregisterOnGameThread: sets the event itself
    /\ game.does = "unregister"
    /\ UnregisterHooks
    /\ cleanupEvent' = "set"
    /\ game' = Returning
    /\ UNCHANGED <<engine, queue, snapshot, sampleDue, probeDue, gameThreadId,
                   threads, host>>

UnregisterOnGameThread ==
    /\ game.does = "unregister"
    /\ UnregisterHooks
    /\ game' = Returning
    /\ UNCHANGED <<engine, queue, snapshot, sampleDue, probeDue, gameThreadId,
                   threads, cleanupEvent, host>>

Return ==
    /\ game = Returning
    /\ game' = Resting
    /\ UNCHANGED <<engine, loader, registered, cache, gameThreadId, threads,
                   cleanupEvent, host>>

---------------------------------------------------------------------------
(* PluginInit, as far as it concerns the hooks.  Its steps may throw, and    *)
(* PluginInit then calls PluginShutdown.                                    *)

MayCall(t) ==
    /\ (t = "loader") <=> splash
    /\ t = "game" => game = Resting

Load(t) ==
    /\ pc = "down" /\ MayCall(t)
    /\ pc' = "init" /\ caller' = t
    /\ UNCHANGED <<engine, loader, game, registered, cache, gameThreadId, threads,
                   cleanupEvent, escaped>>

\* Initialize returns at once: an exception in Shutdown left hooks behind.
AlreadyRegistered ==
    /\ pc = "init" /\ registered
    /\ pc' = "up"
    /\ UNCHANGED <<engine, loader, game, registered, cache, gameThreadId, threads,
                   cleanupEvent, caller, escaped>>

Initialize ==
    /\ pc = "init" /\ ~registered
    /\ snapshot' = None
    /\ cleanupEvent' = "reset"
    /\ registrationThreadId' = caller
    /\ registeredDuringStartup' = splash
    /\ registered' = TRUE
    /\ pc' = "tick"
    /\ UNCHANGED <<engine, loader, game, world, sampleDue, probeDue, gameThreadId,
                   caller, escaped>>

\* Another build of the game, a missing interface, or no event to be had.
InitializeFails ==
    /\ pc = "init" /\ ~registered
    /\ snapshot' = None
    /\ pc' = "up"
    /\ UNCHANGED <<engine, loader, game, registered, world, sampleDue, probeDue,
                   gameThreadId, threads, cleanupEvent, caller, escaped>>

RegisterOnTick ==
    /\ pc = "tick"
    /\ hooks' = hooks \cup {"tick"}
    /\ pc' = "begin"
    /\ UNCHANGED <<engine, queue, game, registered, cache, gameThreadId, threads,
                   cleanupEvent, caller, escaped>>

RegisterOnWorldBeginPlay ==
    /\ pc = "begin"
    /\ hooks' = hooks \cup {"begin"}
    /\ pc' = "end"
    /\ UNCHANGED <<engine, queue, game, registered, cache, gameThreadId, threads,
                   cleanupEvent, caller, escaped>>

RegisterOnBeforeWorldEndPlay ==
    /\ pc = "end"
    /\ hooks' = hooks \cup {"end"}
    /\ probeDue' = TRUE
    /\ pc' = "up"
    /\ UNCHANGED <<engine, queue, game, registered, world, snapshot, sampleDue,
                   gameThreadId, threads, cleanupEvent, caller, escaped>>

InitThrows ==
    /\ pc \in Registering
    /\ pc' = "stop"
    /\ UNCHANGED <<engine, loader, game, registered, cache, gameThreadId, threads,
                   cleanupEvent, caller, escaped>>

---------------------------------------------------------------------------
(* PluginShutdown, of which LiveContext::Shutdown is the first call.        *)

\* CurrentThreadOwnsProcessWindow: the splash window of the loader is no such.
OwnsWindow(t) == t = "game" /\ ~splash

AlwaysPost(t) == gameThreadId = t \/ OwnsWindow(t)   \* mutant of Direct

\* The thread may unregister the hooks itself.
Direct(t) ==
    \/ gameThreadId = t
    \/ OwnsWindow(t)
    \/ registeredDuringStartup /\ registrationThreadId = t

Unload(t) ==
    /\ pc = "up" /\ MayCall(t)
    /\ pc' = "stop" /\ caller' = t
    /\ UNCHANGED <<engine, loader, game, registered, cache, gameThreadId, threads,
                   cleanupEvent, escaped>>

NothingRegistered ==
    /\ pc = "stop" /\ ~registered
    /\ pc' = "close"
    /\ UNCHANGED <<engine, loader, game, registered, cache, gameThreadId, threads,
                   cleanupEvent, caller, escaped>>

UnregisterDirectly ==
    /\ pc = "stop" /\ registered /\ Direct(caller)
    /\ UnregisterHooks
    /\ pc' = "close"
    /\ UNCHANGED <<engine, queue, game, snapshot, sampleDue, probeDue, gameThreadId,
                   threads, cleanupEvent, caller, escaped>>

PostUnregister ==
    /\ pc = "stop" /\ registered /\ ~Direct(caller)
    /\ cleanupEvent' = "reset"
    /\ queue' = Append(queue, "unregister")
    /\ pc' = "post"
    /\ UNCHANGED <<engine, hooks, game, registered, cache, gameThreadId, threads, caller, escaped>>

PostSetEvent ==
    /\ pc = "post"
    /\ queue' = Append(queue, "SetEvent")
    /\ pc' = "wait"
    /\ UNCHANGED <<engine, hooks, game, registered, cache, gameThreadId, threads,
                   cleanupEvent, caller, escaped>>

\* One of the two PostToGameThread throws: the exception leaves Shutdown, and
\* PluginShutdown swallows it and returns without the rest of Shutdown.
PostThrowsOut ==
    /\ PostThrows /\ ~escaped
    /\ \/ pc = "stop" /\ registered /\ ~Direct(caller) /\ cleanupEvent' = "reset"
       \/ pc = "post" /\ UNCHANGED cleanupEvent
    /\ escaped' = TRUE
    /\ pc' = "down"
    /\ UNCHANGED <<engine, loader, game, registered, cache, gameThreadId, threads,
                   caller>>

AwaitCleanup ==
    /\ pc = "wait" /\ cleanupEvent = "set"
    /\ pc' = "close"
    /\ UNCHANGED <<engine, loader, game, registered, cache, gameThreadId, threads,
                   cleanupEvent, caller, escaped>>

LeakEvent ==                            \* mutant of Close: no CloseHandle
    /\ pc = "close"
    /\ registered' = FALSE /\ world' = None /\ snapshot' = None
    /\ gameThreadId' = None /\ registrationThreadId' = None
    /\ registeredDuringStartup' = FALSE
    /\ pc' = "down"
    /\ UNCHANGED <<engine, loader, game, sampleDue, probeDue, cleanupEvent, caller, escaped>>

\* The rest of Shutdown; PluginShutdown returns and the DLL may be unmapped.
Close ==
    /\ pc = "close"
    /\ registered' = FALSE /\ world' = None /\ snapshot' = None
    /\ gameThreadId' = None /\ registrationThreadId' = None
    /\ registeredDuringStartup' = FALSE
    /\ cleanupEvent' = "none"
    /\ pc' = "down"
    /\ UNCHANGED <<engine, loader, game, sampleDue, probeDue, caller, escaped>>

---------------------------------------------------------------------------
(* The environment. *)

CloseSplash ==
    /\ splash /\ pc \in {"down", "up"}
    /\ splash' = FALSE
    /\ UNCHANGED <<alive, current, pawn, loader, game, registered, cache,
                   gameThreadId, threads, cleanupEvent, host>>

PlayerChanges ==
    /\ GameThreadIsFree
    /\ current # None
    /\ pawn' \in Pawns
    /\ UNCHANGED <<splash, alive, current, loader, game, registered, cache,
                   gameThreadId, threads, cleanupEvent, host>>

\* SampleInterval, WorldProbeInterval
SampleIntervalPasses ==
    /\ sampleDue' = TRUE
    /\ UNCHANGED <<engine, loader, game, registered, world, snapshot, probeDue,
                   gameThreadId, threads, cleanupEvent, host>>

ProbeIntervalPasses ==
    /\ probeDue' = TRUE
    /\ UNCHANGED <<engine, loader, game, registered, world, snapshot, sampleDue,
                   gameThreadId, threads, cleanupEvent, host>>

---------------------------------------------------------------------------
GameThreadReturns ==
    \/ OnEngineTick \/ OnWorldBeginPlay \/ OnWorldEndPlay
    \/ UnregisterOnGameThread \/ Return
EngineStep ==
    \/ EnterTick \/ RunPosted \/ PlayerChanges
    \/ \E w \in Worlds : BeginWorld(w) \/ EndWorld(w)
InitStep ==
    \/ AlreadyRegistered \/ Initialize \/ InitializeFails \/ InitThrows
    \/ RegisterOnTick \/ RegisterOnWorldBeginPlay \/ RegisterOnBeforeWorldEndPlay
ShutdownStep ==
    \/ NothingRegistered \/ UnregisterDirectly
    \/ PostUnregister \/ PostSetEvent \/ PostThrowsOut \/ AwaitCleanup \/ Close

Next ==
    \/ GameThreadReturns \/ EngineStep
    \/ InitStep \/ ShutdownStep
    \/ \E t \in Threads : Load(t) \/ Unload(t)
    \/ CloseSplash \/ SampleIntervalPasses \/ ProbeIntervalPasses

Spec == Init /\ [][Next]_vars

(***************************************************************************)
(* Fairness: callbacks end; the engine goes on ticking and the loader        *)
(* running what was posted, between its other work; PluginShutdown runs;     *)
(* time passes; a capture does not throw every single time.                 *)
(***************************************************************************)
FairSpec ==
    /\ Spec
    /\ WF_vars(GameThreadReturns) /\ SF_vars(RunPosted) /\ SF_vars(EnterTick)
    /\ SF_vars(OnEngineTick /\ snapshot' # None)
    /\ WF_vars(ShutdownStep)
    /\ WF_vars(SampleIntervalPasses) /\ WF_vars(ProbeIntervalPasses)

---------------------------------------------------------------------------
FlagsOK ==
    /\ splash \in BOOLEAN /\ registered \in BOOLEAN
    /\ sampleDue \in BOOLEAN /\ probeDue \in BOOLEAN
    /\ registeredDuringStartup \in BOOLEAN /\ escaped \in BOOLEAN

\* The event is there when it may be set, and closed when the plugin is down, unless
\* an exception left Shutdown.
TypeOK ==
    /\ FlagsOK
    /\ alive \in SUBSET Worlds /\ current \in alive \cup {None} /\ pawn \in Pawns
    /\ hooks \in SUBSET Callbacks
    /\ queue \in Seq({"unregister", "SetEvent"})
    /\ game \in [does : Callbacks \cup {"unregister", "return", "nothing"},
                 world : Worlds \cup {None}]
    /\ world \in Worlds \cup {None} /\ snapshot \in Worlds \cup {None}
    /\ gameThreadId \in {"game", None}
    /\ registrationThreadId \in Threads \cup {None}
    /\ cleanupEvent \in {"none", "reset", "set"}
    /\ pc \in Registering \cup Stopping \cup {"down", "up"} /\ caller \in Threads
    /\ queue # << >> /\ ~escaped => cleanupEvent # "none"
    /\ pc = "down" /\ ~escaped => cleanupEvent = "none"

\* The hooks never look into a world that was destroyed, unless an exception in
\* Shutdown left only some of them registered.
NoDanglingWorld == world # None /\ ~escaped => world \in alive

\* While the hooks are up, a question carries no snapshot of a world that ended or
\* was replaced by another.
SnapshotOfThisWorld == registered /\ snapshot # None => snapshot = world

\* The comment in Shutdown: "the game thread has fully returned from plugin
\* cleanup before the waiting thread may unload this DLL".  When PluginShutdown
\* has returned, no hook is left, nothing is posted that would call the DLL or
\* set the closed event, and the game thread is not inside the DLL, unless an
\* exception of PostToGameThread has left Shutdown.
QuietWhenDown ==
    pc = "down" /\ ~escaped => hooks = {} /\ queue = << >> /\ game = Resting

\* The thread that shuts the plugin down does not wait for a game thread that
\* waits for it, or for the plugins to load.
ShutdownEnds == pc = "stop" ~> pc = "down"

\* A world that is played on is sampled, also if the plugin was loaded after it
\* began, or if another world ended in the meantime; unless an exception in Shutdown
\* left only some of the hooks.
Sampled ==
    \A w \in Worlds :
        <>[](/\ pc = "up" /\ registered /\ ~escaped
             /\ alive = {w} /\ current = w /\ pawn = "ready")
            => []<>(snapshot = w)

---------------------------------------------------------------------------
(***************************************************************************)
(* The inductive invariant, for EarlyTicks = FALSE.  CallerInv: which thread *)
(* is inside PluginInit or PluginShutdown.  BarrierInv: how far the hooks    *)
(* and the posted clean-up got, as long as no exception has left Shutdown.   *)
(* WorldInv needs WorldsEndMidway = FALSE as well.                           *)
(***************************************************************************)
CallerInv ==
    /\ splash => game = Resting /\ alive = {}
    /\ InCall => (caller = "loader" <=> splash)
    /\ InCall /\ caller = "game" => game = Resting
    /\ registeredDuringStartup => registrationThreadId = "loader"
    /\ splash /\ registered => registeredDuringStartup

Unregistered == game.does = "unregister" \/ ~registered

BarrierInv ==
    /\ ~registered => hooks = {}
    /\ pc \in {"down", "init", "close"} => ~registered
    /\ pc \in {"tick", "begin", "end"} => registered
    /\ pc = "tick" => hooks = {}
    /\ pc = "begin" => hooks = {"tick"}
    /\ pc = "end" => hooks = {"tick", "begin"}
    /\ pc = "up" => hooks \in {{}, Callbacks}
    /\ game.does \in Callbacks => hooks # {}
    /\ pc \in {"post", "wait"} => caller = "other"
    /\ pc \notin {"post", "wait"} =>
        queue = << >> /\ game.does # "unregister" /\ (registered \/ game = Resting)
    /\ pc = "post" =>
        /\ cleanupEvent = "reset"
        /\ queue = <<"unregister">> \/ (queue = << >> /\ Unregistered)
    /\ pc = "wait" =>
        \/ cleanupEvent = "reset" /\ queue = <<"unregister", "SetEvent">>
        \/ cleanupEvent = "reset" /\ queue = <<"SetEvent">> /\ Unregistered
        \/ queue = << >> /\ ~registered /\ game = Resting

WorldInv ==
    /\ world # None => hooks # {}
    /\ game.does \in {"begin", "end"} => game.world \in alive
    /\ world # None => world \in alive
=============================================================================
