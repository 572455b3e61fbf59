------------------------- MODULE LiveContextProofs -------------------------
(***************************************************************************)
(* Proofs about LiveContext, for any set of worlds.                        *)
(***************************************************************************)
EXTENDS LiveContext, Integers, SequenceTheorems, TLAPS

\* The queue of posted callbacks, which holds two at most.
LEMMA QueueFacts ==
    /\ Append(<< >>, "SetEvent") = <<"SetEvent">>
    /\ Append(<<"unregister">>, "SetEvent") = <<"unregister", "SetEvent">>
    /\ Tail(<<"unregister", "SetEvent">>) = <<"SetEvent">>
    /\ Tail(<<"unregister">>) = << >> /\ Tail(<<"SetEvent">>) = << >>
    /\ Head(<<"unregister", "SetEvent">>) = "unregister"
    /\ Head(<<"unregister">>) = "unregister" /\ Head(<<"SetEvent">>) = "SetEvent"
<1>1. Append(<< >>, "SetEvent") = <<"SetEvent">>
  OBVIOUS
<1>2. Append(<<"unregister">>, "SetEvent") = <<"unregister", "SetEvent">>
  <2> DEFINE S == {"unregister", "SetEvent"}
             a == Append(<<"unregister">>, "SetEvent")
             b == <<"unregister", "SetEvent">>
  <2>1. <<"unregister">> \in Seq(S) /\ b \in Seq(S) /\ "SetEvent" \in S
    OBVIOUS
  <2>2. /\ a \in Seq(S) /\ Len(a) = 2
        /\ a[1] = "unregister" /\ a[2] = "SetEvent"
    BY <2>1, AppendProperties
  <2>3. Len(b) = 2 /\ b[1] = "unregister" /\ b[2] = "SetEvent"
    OBVIOUS
  <2>4. \A i \in 1..Len(a) : a[i] = b[i]
    BY <2>2, <2>3
  <2> HIDE DEF S, a, b
  <2>5. a = b
    BY <2>1, <2>2, <2>3, <2>4, SeqEqual
  <2> QED
    BY <2>5 DEF a, b
<1>3. Tail(<<"unregister", "SetEvent">>) = <<"SetEvent">>
  OBVIOUS
<1>4. Tail(<<"unregister">>) = << >> /\ Tail(<<"SetEvent">>) = << >>
  OBVIOUS
<1>5. Head(<<"unregister", "SetEvent">>) = "unregister"
  OBVIOUS
<1>6. Head(<<"unregister">>) = "unregister" /\ Head(<<"SetEvent">>) = "SetEvent"
  OBVIOUS
<1> QED
  BY <1>1, <1>2, <1>3, <1>4, <1>5, <1>6

\* The Boolean variables are separate: a step sets or keeps each.
LEMMA FlagsNext ==
    FlagsOK /\ [Next]_vars => FlagsOK'
<1> SUFFICES ASSUME FlagsOK, [Next]_vars
             PROVE  FlagsOK'
  OBVIOUS
<1> USE DEF engine, loader, cache, threads, host, Doing, Resting, Returning, FlagsOK
<1>1. CASE EnterTick
  BY <1>1 DEF EnterTick, GameThreadIsFree
<1>2. CASE OnEngineTick
  BY <1>2 DEF OnEngineTick, RecoverWorld, CurrentWorldWithPlayer, Captured
<1>3. CASE OnWorldBeginPlay
  BY <1>3 DEF OnWorldBeginPlay
<1>4. CASE OnWorldEndPlay
  BY <1>4 DEF OnWorldEndPlay, ForgetWorld, Destroy
<1>5. CASE RunPosted
  BY <1>5 DEF RunPosted, GameThreadIsFree
<1>6. CASE UnregisterOnGameThread
  BY <1>6 DEF UnregisterOnGameThread, UnregisterHooks
<1>7. CASE Return
  BY <1>7 DEF Return
<1>8. CASE Initialize
  BY <1>8 DEF Initialize
<1>9. CASE InitializeFails
  BY <1>9 DEF InitializeFails
<1>10. CASE RegisterOnTick
  BY <1>10 DEF RegisterOnTick
<1>11. CASE RegisterOnWorldBeginPlay
  BY <1>11 DEF RegisterOnWorldBeginPlay
<1>12. CASE RegisterOnBeforeWorldEndPlay
  BY <1>12 DEF RegisterOnBeforeWorldEndPlay
<1>13. CASE InitThrows
  BY <1>13 DEF InitThrows
<1>14. CASE NothingRegistered
  BY <1>14 DEF NothingRegistered
<1>15. CASE UnregisterDirectly
  BY <1>15 DEF UnregisterDirectly, UnregisterHooks, Direct, OwnsWindow
<1>16. CASE PostUnregister
  BY <1>16 DEF PostUnregister, Direct, OwnsWindow
<1>17. CASE PostSetEvent
  BY <1>17 DEF PostSetEvent
<1>18. CASE AwaitCleanup
  BY <1>18 DEF AwaitCleanup
<1>19. CASE Close
  BY <1>19 DEF Close
<1>20. CASE CloseSplash
  BY <1>20 DEF CloseSplash
<1>21. CASE PlayerChanges
  BY <1>21 DEF PlayerChanges, GameThreadIsFree
<1>22. CASE SampleIntervalPasses
  BY <1>22 DEF SampleIntervalPasses
<1>23. CASE ProbeIntervalPasses
  BY <1>23 DEF ProbeIntervalPasses
<1>24. ASSUME NEW w \in Worlds, BeginWorld(w) PROVE FlagsOK'
  BY <1>24 DEF BeginWorld, GameThreadIsFree
<1>25. ASSUME NEW w \in Worlds, EndWorld(w) PROVE FlagsOK'
  BY <1>25 DEF EndWorld, GameThreadIsFree, Destroy
<1>26. ASSUME NEW t \in Threads, Load(t) PROVE FlagsOK'
  BY <1>26 DEF Load, MayCall
<1>27. ASSUME NEW t \in Threads, Unload(t) PROVE FlagsOK'
  BY <1>27 DEF Unload, MayCall
<1>28. CASE AlreadyRegistered
  BY <1>28 DEF AlreadyRegistered
<1>29. CASE PostThrowsOut
  BY <1>29 DEF PostThrowsOut
<1>30. CASE UNCHANGED vars
  BY <1>30 DEF vars
<1> QED
  BY <1>1, <1>2, <1>3, <1>4, <1>5, <1>6, <1>7, <1>8, <1>9, <1>10, <1>11, <1>12,
     <1>13, <1>14, <1>15, <1>16, <1>17, <1>18, <1>19, <1>20, <1>21, <1>22,
     <1>23, <1>24, <1>25, <1>26, <1>27, <1>28, <1>29, <1>30
     DEF Next, GameThreadReturns, EngineStep, InitStep, ShutdownStep

\* The barrier stands until an exception leaves Shutdown, and so do the worlds.
BarrierHolds == escaped \/ BarrierInv
WorldHolds == escaped \/ WorldInv

\* Types are preserved by every step.
LEMMA TypeNext ==
    TypeOK /\ BarrierHolds /\ [Next]_vars => TypeOK'
<1> SUFFICES ASSUME TypeOK, BarrierHolds, [Next]_vars
             PROVE  TypeOK'
  OBVIOUS
<1> USE LiveAssumption, FlagsNext DEF engine, loader, cache, threads, host, Doing, Resting, Returning,
        TypeOK, BarrierHolds, BarrierInv, Threads, Pawns, Callbacks, Registering, Stopping
<1>1. CASE EnterTick
  BY <1>1 DEF EnterTick, GameThreadIsFree
<1>2. CASE OnEngineTick
  BY <1>2 DEF OnEngineTick, RecoverWorld, CurrentWorldWithPlayer, Captured
<1>3. CASE OnWorldBeginPlay
  BY <1>3 DEF OnWorldBeginPlay
<1>4. CASE OnWorldEndPlay
  BY <1>4 DEF OnWorldEndPlay, ForgetWorld, Destroy
<1>5. CASE RunPosted
  BY <1>5 DEF RunPosted, GameThreadIsFree
<1>6. CASE UnregisterOnGameThread
  <2>1. FlagsOK'
    BY <1>6
  <2>2. /\ UNCHANGED <<alive, current, pawn, queue, snapshot, gameThreadId>>
        /\ UNCHANGED <<registrationThreadId, pc, caller, cleanupEvent, escaped>>
    BY <1>6 DEF UnregisterOnGameThread
  <2>3. hooks' \in {{}, hooks} /\ world' \in {None, world} /\ game' = Returning
    BY <1>6 DEF UnregisterOnGameThread, UnregisterHooks
  <2>4. /\ hooks' \in SUBSET Callbacks /\ world' \in Worlds \cup {None}
        /\ game' \in [does : Callbacks \cup {"unregister", "return", "nothing"},
                      world : Worlds \cup {None}]
    BY <2>3
  <2> QED
    BY <2>1, <2>2, <2>4
<1>7. CASE Return
  BY <1>7 DEF Return
<1>8. CASE Initialize
  BY <1>8 DEF Initialize
<1>9. CASE InitializeFails
  BY <1>9 DEF InitializeFails
<1>10. CASE RegisterOnTick
  BY <1>10 DEF RegisterOnTick
<1>11. CASE RegisterOnWorldBeginPlay
  BY <1>11 DEF RegisterOnWorldBeginPlay
<1>12. CASE RegisterOnBeforeWorldEndPlay
  BY <1>12 DEF RegisterOnBeforeWorldEndPlay
<1>13. CASE InitThrows
  BY <1>13 DEF InitThrows
<1>14. CASE NothingRegistered
  BY <1>14 DEF NothingRegistered
<1>15. CASE UnregisterDirectly
  BY <1>15 DEF UnregisterDirectly, UnregisterHooks, Direct, OwnsWindow
<1>16. CASE PostUnregister
  BY <1>16 DEF PostUnregister, Direct, OwnsWindow
<1>17. CASE PostSetEvent
  BY <1>17 DEF PostSetEvent
<1>18. CASE AwaitCleanup
  BY <1>18 DEF AwaitCleanup
<1>19. CASE Close
  BY <1>19 DEF Close
<1>20. CASE CloseSplash
  BY <1>20 DEF CloseSplash
<1>21. CASE PlayerChanges
  BY <1>21 DEF PlayerChanges, GameThreadIsFree
<1>22. CASE SampleIntervalPasses
  BY <1>22 DEF SampleIntervalPasses
<1>23. CASE ProbeIntervalPasses
  BY <1>23 DEF ProbeIntervalPasses
<1>24. ASSUME NEW w \in Worlds, BeginWorld(w) PROVE TypeOK'
  BY <1>24 DEF BeginWorld, GameThreadIsFree
<1>25. ASSUME NEW w \in Worlds, EndWorld(w) PROVE TypeOK'
  BY <1>25 DEF EndWorld, GameThreadIsFree, Destroy
<1>26. ASSUME NEW t \in Threads, Load(t) PROVE TypeOK'
  BY <1>26 DEF Load, MayCall
<1>27. ASSUME NEW t \in Threads, Unload(t) PROVE TypeOK'
  BY <1>27 DEF Unload, MayCall
<1>28. CASE AlreadyRegistered
  BY <1>28 DEF AlreadyRegistered
<1>29. CASE PostThrowsOut
  BY <1>29 DEF PostThrowsOut
<1>30. CASE UNCHANGED vars
  BY <1>30 DEF vars
<1> QED
  BY <1>1, <1>2, <1>3, <1>4, <1>5, <1>6, <1>7, <1>8, <1>9, <1>10, <1>11, <1>12,
     <1>13, <1>14, <1>15, <1>16, <1>17, <1>18, <1>19, <1>20, <1>21, <1>22,
     <1>23, <1>24, <1>25, <1>26, <1>27, <1>28, <1>29, <1>30
     DEF Next, GameThreadReturns, EngineStep, InitStep, ShutdownStep

\* The thread inside PluginInit or PluginShutdown.
LEMMA CallerNext ==
    TypeOK /\ CallerInv /\ [Next]_vars /\ ~EarlyTicks => CallerInv'
<1> SUFFICES ASSUME TypeOK, CallerInv, [Next]_vars, ~EarlyTicks
             PROVE  CallerInv'
  OBVIOUS
<1> USE LiveAssumption DEF engine, loader, cache, threads, host, Doing, Resting, Returning,
        TypeOK, CallerInv, InCall, Threads, Callbacks, Registering, Stopping
<1>1. CASE EnterTick
  BY <1>1 DEF EnterTick, GameThreadIsFree
<1>2. CASE OnEngineTick
  BY <1>2 DEF OnEngineTick, RecoverWorld, CurrentWorldWithPlayer, Captured
<1>3. CASE OnWorldBeginPlay
  BY <1>3 DEF OnWorldBeginPlay
<1>4. CASE OnWorldEndPlay
  BY <1>4 DEF OnWorldEndPlay, ForgetWorld, Destroy
<1>5. CASE RunPosted
  BY <1>5 DEF RunPosted, GameThreadIsFree
<1>6. CASE UnregisterOnGameThread
  BY <1>6 DEF UnregisterOnGameThread, UnregisterHooks
<1>7. CASE Return
  BY <1>7 DEF Return
<1>8. CASE Initialize
  BY <1>8 DEF Initialize
<1>9. CASE InitializeFails
  BY <1>9 DEF InitializeFails
<1>10. CASE RegisterOnTick
  BY <1>10 DEF RegisterOnTick
<1>11. CASE RegisterOnWorldBeginPlay
  BY <1>11 DEF RegisterOnWorldBeginPlay
<1>12. CASE RegisterOnBeforeWorldEndPlay
  BY <1>12 DEF RegisterOnBeforeWorldEndPlay
<1>13. CASE InitThrows
  BY <1>13 DEF InitThrows
<1>14. CASE NothingRegistered
  BY <1>14 DEF NothingRegistered
<1>15. CASE UnregisterDirectly
  BY <1>15 DEF UnregisterDirectly, UnregisterHooks, Direct, OwnsWindow
<1>16. CASE PostUnregister
  BY <1>16 DEF PostUnregister, Direct, OwnsWindow
<1>17. CASE PostSetEvent
  BY <1>17 DEF PostSetEvent
<1>18. CASE AwaitCleanup
  BY <1>18 DEF AwaitCleanup
<1>19. CASE Close
  BY <1>19 DEF Close
<1>20. CASE CloseSplash
  BY <1>20 DEF CloseSplash
<1>21. CASE PlayerChanges
  BY <1>21 DEF PlayerChanges, GameThreadIsFree
<1>22. CASE SampleIntervalPasses
  BY <1>22 DEF SampleIntervalPasses
<1>23. CASE ProbeIntervalPasses
  BY <1>23 DEF ProbeIntervalPasses
<1>24. ASSUME NEW w \in Worlds, BeginWorld(w) PROVE CallerInv'
  BY <1>24 DEF BeginWorld, GameThreadIsFree
<1>25. ASSUME NEW w \in Worlds, EndWorld(w) PROVE CallerInv'
  BY <1>25 DEF EndWorld, GameThreadIsFree, Destroy
<1>26. ASSUME NEW t \in Threads, Load(t) PROVE CallerInv'
  BY <1>26 DEF Load, MayCall
<1>27. ASSUME NEW t \in Threads, Unload(t) PROVE CallerInv'
  BY <1>27 DEF Unload, MayCall
<1>28. CASE AlreadyRegistered
  BY <1>28 DEF AlreadyRegistered
<1>29. CASE PostThrowsOut
  BY <1>29 DEF PostThrowsOut
<1>30. CASE UNCHANGED vars
  BY <1>30 DEF vars
<1> QED
  BY <1>1, <1>2, <1>3, <1>4, <1>5, <1>6, <1>7, <1>8, <1>9, <1>10, <1>11, <1>12,
     <1>13, <1>14, <1>15, <1>16, <1>17, <1>18, <1>19, <1>20, <1>21, <1>22,
     <1>23, <1>24, <1>25, <1>26, <1>27, <1>28, <1>29, <1>30
     DEF Next, GameThreadReturns, EngineStep, InitStep, ShutdownStep

\* An exception that has left Shutdown is remembered.
LEMMA EscapedNext ==
    escaped /\ [Next]_vars => escaped'
<1> SUFFICES ASSUME escaped, [Next]_vars
             PROVE  escaped'
  OBVIOUS
<1> USE DEF engine, loader, cache, threads, host
<1>1. CASE EnterTick
  BY <1>1 DEF EnterTick, GameThreadIsFree
<1>2. CASE OnEngineTick
  BY <1>2 DEF OnEngineTick, RecoverWorld, CurrentWorldWithPlayer, Captured
<1>3. CASE OnWorldBeginPlay
  BY <1>3 DEF OnWorldBeginPlay
<1>4. CASE OnWorldEndPlay
  BY <1>4 DEF OnWorldEndPlay, ForgetWorld, Destroy
<1>5. CASE RunPosted
  BY <1>5 DEF RunPosted, GameThreadIsFree
<1>6. CASE UnregisterOnGameThread
  BY <1>6 DEF UnregisterOnGameThread, UnregisterHooks
<1>7. CASE Return
  BY <1>7 DEF Return
<1>8. CASE Initialize
  BY <1>8 DEF Initialize
<1>9. CASE InitializeFails
  BY <1>9 DEF InitializeFails
<1>10. CASE RegisterOnTick
  BY <1>10 DEF RegisterOnTick
<1>11. CASE RegisterOnWorldBeginPlay
  BY <1>11 DEF RegisterOnWorldBeginPlay
<1>12. CASE RegisterOnBeforeWorldEndPlay
  BY <1>12 DEF RegisterOnBeforeWorldEndPlay
<1>13. CASE InitThrows
  BY <1>13 DEF InitThrows
<1>14. CASE NothingRegistered
  BY <1>14 DEF NothingRegistered
<1>15. CASE UnregisterDirectly
  BY <1>15 DEF UnregisterDirectly, UnregisterHooks, Direct, OwnsWindow
<1>16. CASE PostUnregister
  BY <1>16 DEF PostUnregister, Direct, OwnsWindow
<1>17. CASE PostSetEvent
  BY <1>17 DEF PostSetEvent
<1>18. CASE AwaitCleanup
  BY <1>18 DEF AwaitCleanup
<1>19. CASE Close
  BY <1>19 DEF Close
<1>20. CASE CloseSplash
  BY <1>20 DEF CloseSplash
<1>21. CASE PlayerChanges
  BY <1>21 DEF PlayerChanges, GameThreadIsFree
<1>22. CASE SampleIntervalPasses
  BY <1>22 DEF SampleIntervalPasses
<1>23. CASE ProbeIntervalPasses
  BY <1>23 DEF ProbeIntervalPasses
<1>24. ASSUME NEW w \in Worlds, BeginWorld(w) PROVE escaped'
  BY <1>24 DEF BeginWorld, GameThreadIsFree
<1>25. ASSUME NEW w \in Worlds, EndWorld(w) PROVE escaped'
  BY <1>25 DEF EndWorld, GameThreadIsFree, Destroy
<1>26. ASSUME NEW t \in Threads, Load(t) PROVE escaped'
  BY <1>26 DEF Load, MayCall
<1>27. ASSUME NEW t \in Threads, Unload(t) PROVE escaped'
  BY <1>27 DEF Unload, MayCall
<1>28. CASE AlreadyRegistered
  BY <1>28 DEF AlreadyRegistered
<1>29. CASE PostThrowsOut
  BY <1>29 DEF PostThrowsOut
<1>30. CASE UNCHANGED vars
  BY <1>30 DEF vars
<1> QED
  BY <1>1, <1>2, <1>3, <1>4, <1>5, <1>6, <1>7, <1>8, <1>9, <1>10, <1>11, <1>12,
     <1>13, <1>14, <1>15, <1>16, <1>17, <1>18, <1>19, <1>20, <1>21, <1>22,
     <1>23, <1>24, <1>25, <1>26, <1>27, <1>28, <1>29, <1>30
     DEF Next, GameThreadReturns, EngineStep, InitStep, ShutdownStep

\* Only one step lets it out.
LEMMA EscapesByThrow ==
    ~escaped /\ [Next]_vars /\ escaped' => PostThrowsOut
<1> SUFFICES ASSUME ~escaped, [Next]_vars, ~PostThrowsOut
             PROVE  ~escaped'
  OBVIOUS
<1> USE DEF engine, loader, cache, threads, host
<1>1. CASE EnterTick
  BY <1>1 DEF EnterTick, GameThreadIsFree
<1>2. CASE OnEngineTick
  BY <1>2 DEF OnEngineTick, RecoverWorld, CurrentWorldWithPlayer, Captured
<1>3. CASE OnWorldBeginPlay
  BY <1>3 DEF OnWorldBeginPlay
<1>4. CASE OnWorldEndPlay
  BY <1>4 DEF OnWorldEndPlay, ForgetWorld, Destroy
<1>5. CASE RunPosted
  BY <1>5 DEF RunPosted, GameThreadIsFree
<1>6. CASE UnregisterOnGameThread
  BY <1>6 DEF UnregisterOnGameThread, UnregisterHooks
<1>7. CASE Return
  BY <1>7 DEF Return
<1>8. CASE Initialize
  BY <1>8 DEF Initialize
<1>9. CASE InitializeFails
  BY <1>9 DEF InitializeFails
<1>10. CASE RegisterOnTick
  BY <1>10 DEF RegisterOnTick
<1>11. CASE RegisterOnWorldBeginPlay
  BY <1>11 DEF RegisterOnWorldBeginPlay
<1>12. CASE RegisterOnBeforeWorldEndPlay
  BY <1>12 DEF RegisterOnBeforeWorldEndPlay
<1>13. CASE InitThrows
  BY <1>13 DEF InitThrows
<1>14. CASE NothingRegistered
  BY <1>14 DEF NothingRegistered
<1>15. CASE UnregisterDirectly
  BY <1>15 DEF UnregisterDirectly, UnregisterHooks, Direct, OwnsWindow
<1>16. CASE PostUnregister
  BY <1>16 DEF PostUnregister, Direct, OwnsWindow
<1>17. CASE PostSetEvent
  BY <1>17 DEF PostSetEvent
<1>18. CASE AwaitCleanup
  BY <1>18 DEF AwaitCleanup
<1>19. CASE Close
  BY <1>19 DEF Close
<1>20. CASE CloseSplash
  BY <1>20 DEF CloseSplash
<1>21. CASE PlayerChanges
  BY <1>21 DEF PlayerChanges, GameThreadIsFree
<1>22. CASE SampleIntervalPasses
  BY <1>22 DEF SampleIntervalPasses
<1>23. CASE ProbeIntervalPasses
  BY <1>23 DEF ProbeIntervalPasses
<1>24. ASSUME NEW w \in Worlds, BeginWorld(w) PROVE ~escaped'
  BY <1>24 DEF BeginWorld, GameThreadIsFree
<1>25. ASSUME NEW w \in Worlds, EndWorld(w) PROVE ~escaped'
  BY <1>25 DEF EndWorld, GameThreadIsFree, Destroy
<1>26. ASSUME NEW t \in Threads, Load(t) PROVE ~escaped'
  BY <1>26 DEF Load, MayCall
<1>27. ASSUME NEW t \in Threads, Unload(t) PROVE ~escaped'
  BY <1>27 DEF Unload, MayCall
<1>28. CASE AlreadyRegistered
  BY <1>28 DEF AlreadyRegistered
<1>29. CASE PostThrowsOut
  BY <1>29 DEF PostThrowsOut
<1>30. CASE UNCHANGED vars
  BY <1>30 DEF vars
<1> QED
  BY <1>1, <1>2, <1>3, <1>4, <1>5, <1>6, <1>7, <1>8, <1>9, <1>10, <1>11, <1>12,
     <1>13, <1>14, <1>15, <1>16, <1>17, <1>18, <1>19, <1>20, <1>21, <1>22,
     <1>23, <1>24, <1>25, <1>26, <1>27, <1>28, <1>29, <1>30
     DEF Next, GameThreadReturns, EngineStep, InitStep, ShutdownStep

\* The clean-up on the game thread.
LEMMA BarrierNext ==
    TypeOK /\ CallerInv /\ BarrierHolds /\ [Next]_vars /\ ~EarlyTicks => BarrierHolds'
<1> SUFFICES ASSUME TypeOK, CallerInv, BarrierInv, [Next]_vars, ~EarlyTicks, ~PostThrowsOut
             PROVE  BarrierInv'
  BY EscapedNext DEF BarrierHolds, PostThrowsOut
<1> USE LiveAssumption DEF engine, loader, cache, threads, host, Doing, Resting, Returning,
        TypeOK, CallerInv, BarrierInv, InCall, Unregistered, Threads, Callbacks, Registering, Stopping
<1>1. CASE EnterTick
  BY <1>1 DEF EnterTick, GameThreadIsFree
<1>2. CASE OnEngineTick
  BY <1>2 DEF OnEngineTick, RecoverWorld, CurrentWorldWithPlayer, Captured
<1>3. CASE OnWorldBeginPlay
  BY <1>3 DEF OnWorldBeginPlay
<1>4. CASE OnWorldEndPlay
  BY <1>4 DEF OnWorldEndPlay, ForgetWorld, Destroy
<1>5. CASE RunPosted
  <2>1. game = Resting /\ queue # << >> /\ queue' = Tail(queue) /\ pc' = pc
    BY <1>5 DEF RunPosted, GameThreadIsFree
  <2>2. pc \in {"post", "wait"} /\ caller = "other"
    BY <2>1
  <2>3. CASE Head(queue) = "unregister"
    <3>1. game' = [does |-> "unregister", world |-> None] /\ UNCHANGED cleanupEvent
      BY <1>5, <2>3 DEF RunPosted
    <3>2. pc = "post" => queue' = << >>
      BY <2>1, <2>3, QueueFacts
    <3>3. pc = "wait" => queue' = <<"SetEvent">> /\ cleanupEvent = "reset"
      BY <2>1, <2>3, QueueFacts
    <3> QED
      BY <1>5, <2>2, <3>1, <3>2, <3>3 DEF RunPosted
  <2>4. CASE Head(queue) = "SetEvent"
    <3>1. pc = "wait" /\ queue' = << >> /\ ~registered
      BY <2>1, <2>2, <2>4, QueueFacts
    <3> QED
      BY <1>5, <2>1, <2>2, <2>4, <3>1 DEF RunPosted
  <2> QED
    BY <1>5, <2>3, <2>4 DEF RunPosted
<1>6. CASE UnregisterOnGameThread
  <2>1. hooks' = {} /\ ~registered'
    <3>1. CASE registered
      BY <1>6, <3>1 DEF UnregisterOnGameThread, UnregisterHooks
    <3>2. CASE ~registered
      BY <1>6, <3>2 DEF UnregisterOnGameThread, UnregisterHooks
    <3> QED
      BY <3>1, <3>2
  <2>2. game.does = "unregister" /\ game' = [does |-> "return", world |-> None]
    BY <1>6 DEF UnregisterOnGameThread
  <2> QED
    BY <1>6, <2>1, <2>2 DEF UnregisterOnGameThread
<1>7. CASE Return
  BY <1>7 DEF Return
<1>8. CASE Initialize
  BY <1>8 DEF Initialize
<1>9. CASE InitializeFails
  BY <1>9 DEF InitializeFails
<1>10. CASE RegisterOnTick
  BY <1>10 DEF RegisterOnTick
<1>11. CASE RegisterOnWorldBeginPlay
  BY <1>11 DEF RegisterOnWorldBeginPlay
<1>12. CASE RegisterOnBeforeWorldEndPlay
  BY <1>12 DEF RegisterOnBeforeWorldEndPlay
<1>13. CASE InitThrows
  BY <1>13 DEF InitThrows
<1>14. CASE NothingRegistered
  BY <1>14 DEF NothingRegistered
<1>15. CASE UnregisterDirectly
  BY <1>15 DEF UnregisterDirectly, UnregisterHooks, Direct, OwnsWindow
<1>16. CASE PostUnregister
  BY <1>16 DEF PostUnregister, Direct, OwnsWindow
<1>17. CASE PostSetEvent
  <2>1. queue' = <<"unregister", "SetEvent">> \/ queue' = <<"SetEvent">>
    BY <1>17, QueueFacts DEF PostSetEvent
  <2>2. queue' = <<"SetEvent">> => Unregistered'
    BY <1>17 DEF PostSetEvent
  <2> QED
    BY <1>17, <2>1, <2>2 DEF PostSetEvent
<1>18. CASE AwaitCleanup
  BY <1>18 DEF AwaitCleanup
<1>19. CASE Close
  BY <1>19 DEF Close
<1>20. CASE CloseSplash
  BY <1>20 DEF CloseSplash
<1>21. CASE PlayerChanges
  BY <1>21 DEF PlayerChanges, GameThreadIsFree
<1>22. CASE SampleIntervalPasses
  BY <1>22 DEF SampleIntervalPasses
<1>23. CASE ProbeIntervalPasses
  BY <1>23 DEF ProbeIntervalPasses
<1>24. ASSUME NEW w \in Worlds, BeginWorld(w) PROVE BarrierInv'
  BY <1>24 DEF BeginWorld, GameThreadIsFree
<1>25. ASSUME NEW w \in Worlds, EndWorld(w) PROVE BarrierInv'
  BY <1>25 DEF EndWorld, GameThreadIsFree, Destroy
<1>26. ASSUME NEW t \in Threads, Load(t) PROVE BarrierInv'
  BY <1>26 DEF Load, MayCall
<1>27. ASSUME NEW t \in Threads, Unload(t) PROVE BarrierInv'
  BY <1>27 DEF Unload, MayCall
<1>28. CASE AlreadyRegistered
  BY <1>28 DEF AlreadyRegistered
<1>29. CASE PostThrowsOut
  BY <1>29 DEF PostThrowsOut
<1>30. CASE UNCHANGED vars
  BY <1>30 DEF vars
<1> QED
  BY <1>1, <1>2, <1>3, <1>4, <1>5, <1>6, <1>7, <1>8, <1>9, <1>10, <1>11, <1>12,
     <1>13, <1>14, <1>15, <1>16, <1>17, <1>18, <1>19, <1>20, <1>21, <1>22,
     <1>23, <1>24, <1>25, <1>26, <1>27, <1>28, <1>29, <1>30
     DEF Next, GameThreadReturns, EngineStep, InitStep, ShutdownStep

\* The world the hooks look at.
LEMMA WorldNext ==
    TypeOK /\ CallerInv /\ BarrierHolds /\ WorldHolds /\ [Next]_vars /\ ~EarlyTicks /\ ~WorldsEndMidway
        => WorldHolds'
<1> SUFFICES ASSUME TypeOK, CallerInv, BarrierInv, WorldInv, ~escaped, [Next]_vars,
                    ~EarlyTicks, ~WorldsEndMidway, ~PostThrowsOut
             PROVE  WorldInv'
  BY EscapedNext DEF BarrierHolds, WorldHolds, PostThrowsOut
<1> USE LiveAssumption DEF engine, loader, cache, threads, host, Doing, Resting, Returning,
        TypeOK, WorldInv, Callbacks
<1>1. CASE EnterTick
  BY <1>1 DEF EnterTick, GameThreadIsFree
<1>2. CASE OnEngineTick
  <2>1. hooks # {} /\ hooks' = hooks
    BY <1>2 DEF OnEngineTick, BarrierInv
  <2>2. world' \in alive \cup {None}
    BY <1>2 DEF OnEngineTick, RecoverWorld, CurrentWorldWithPlayer
  <2> QED
    BY <1>2, <2>1, <2>2 DEF OnEngineTick
<1>3. CASE OnWorldBeginPlay
  BY <1>3 DEF OnWorldBeginPlay, BarrierInv
<1>4. CASE OnWorldEndPlay
  BY <1>4 DEF OnWorldEndPlay, ForgetWorld, Destroy
<1>5. CASE RunPosted
  BY <1>5 DEF RunPosted, GameThreadIsFree
<1>6. CASE UnregisterOnGameThread
  BY <1>6 DEF UnregisterOnGameThread, UnregisterHooks
<1>7. CASE Return
  BY <1>7 DEF Return
<1>8. CASE Initialize
  BY <1>8 DEF Initialize
<1>9. CASE InitializeFails
  BY <1>9 DEF InitializeFails
<1>10. CASE RegisterOnTick
  BY <1>10 DEF RegisterOnTick
<1>11. CASE RegisterOnWorldBeginPlay
  BY <1>11 DEF RegisterOnWorldBeginPlay
<1>12. CASE RegisterOnBeforeWorldEndPlay
  BY <1>12 DEF RegisterOnBeforeWorldEndPlay
<1>13. CASE InitThrows
  BY <1>13 DEF InitThrows
<1>14. CASE NothingRegistered
  BY <1>14 DEF NothingRegistered
<1>15. CASE UnregisterDirectly
  BY <1>15 DEF UnregisterDirectly, UnregisterHooks, Direct, OwnsWindow
<1>16. CASE PostUnregister
  BY <1>16 DEF PostUnregister, Direct, OwnsWindow
<1>17. CASE PostSetEvent
  BY <1>17 DEF PostSetEvent
<1>18. CASE AwaitCleanup
  BY <1>18 DEF AwaitCleanup
<1>19. CASE Close
  BY <1>19 DEF Close
<1>20. CASE CloseSplash
  BY <1>20 DEF CloseSplash
<1>21. CASE PlayerChanges
  BY <1>21 DEF PlayerChanges, GameThreadIsFree
<1>22. CASE SampleIntervalPasses
  BY <1>22 DEF SampleIntervalPasses
<1>23. CASE ProbeIntervalPasses
  BY <1>23 DEF ProbeIntervalPasses
<1>24. ASSUME NEW w \in Worlds, BeginWorld(w) PROVE WorldInv'
  BY <1>24 DEF BeginWorld, GameThreadIsFree
<1>25. ASSUME NEW w \in Worlds, EndWorld(w) PROVE WorldInv'
  <2>1. game.does = "nothing" /\ hooks \in {{}, Callbacks}
    BY <1>25 DEF EndWorld, GameThreadIsFree, InCall, BarrierInv
  <2>2. CASE "end" \in hooks
    BY <1>25, <2>1, <2>2 DEF EndWorld
  <2>3. CASE "end" \notin hooks
    <3>1. world = None
      BY <2>1, <2>3
    <3> QED
      BY <1>25, <2>1, <2>3, <3>1 DEF EndWorld
  <2> QED
    BY <2>2, <2>3
<1>26. ASSUME NEW t \in Threads, Load(t) PROVE WorldInv'
  BY <1>26 DEF Load, MayCall
<1>27. ASSUME NEW t \in Threads, Unload(t) PROVE WorldInv'
  BY <1>27 DEF Unload, MayCall
<1>28. CASE AlreadyRegistered
  BY <1>28 DEF AlreadyRegistered
<1>29. CASE PostThrowsOut
  BY <1>29 DEF PostThrowsOut
<1>30. CASE UNCHANGED vars
  BY <1>30 DEF vars
<1> QED
  BY <1>1, <1>2, <1>3, <1>4, <1>5, <1>6, <1>7, <1>8, <1>9, <1>10, <1>11, <1>12,
     <1>13, <1>14, <1>15, <1>16, <1>17, <1>18, <1>19, <1>20, <1>21, <1>22,
     <1>23, <1>24, <1>25, <1>26, <1>27, <1>28, <1>29, <1>30
     DEF Next, GameThreadReturns, EngineStep, InitStep, ShutdownStep

\* The invariants that do not need the worlds.
LEMMA Inductive ==
    ASSUME ~EarlyTicks
    PROVE  Spec => [](TypeOK /\ CallerInv /\ BarrierHolds)
<1> DEFINE Inv == TypeOK /\ CallerInv /\ BarrierHolds
<1>1. ASSUME Init PROVE Inv
  <2>1. FlagsOK
    BY <1>1 DEF Init, FlagsOK
  <2>2. game = Resting /\ game.does = "nothing" /\ game.world = None
    BY <1>1 DEF Init, Resting, Doing
  <2>3. TypeOK
    BY <1>1, <2>1, <2>2 DEF Init, TypeOK, Resting, Doing, Threads, Pawns, Callbacks,
       Registering, Stopping
  <2>4. CallerInv
    BY <1>1 DEF Init, CallerInv, InCall
  <2>5. BarrierHolds
    BY <1>1, <2>2 DEF Init, BarrierHolds, BarrierInv, Callbacks
  <2> QED
    BY <2>3, <2>4, <2>5
<1>2. Inv /\ [Next]_vars => Inv'
  BY TypeNext, CallerNext, BarrierNext
<1> QED
  BY <1>1, <1>2, PTL DEF Spec

\* Type correctness, if the engine does not tick while the splash is shown.
THEOREM LiveTypes ==
    ASSUME ~EarlyTicks
    PROVE  Spec => []TypeOK
  BY Inductive, PTL

\* When PluginShutdown has returned, whichever thread ran it and however far
\* PluginInit got, the DLL may be unmapped: no hook, no posted callback, and no
\* activation of it on the game thread is left; unless PostToGameThread threw and
\* the exception left Shutdown.
THEOREM UnloadIsSafe ==
    ASSUME ~EarlyTicks
    PROVE  Spec => []QuietWhenDown
<1>1. TypeOK /\ BarrierHolds => QuietWhenDown
  BY DEF TypeOK, BarrierHolds, BarrierInv, QuietWhenDown
<1> QED
  BY <1>1, Inductive, PTL

\* An exception leaves Shutdown only on a thread that has to post the clean-up: not on
\* the game thread, and not on the thread that loaded the plugin during the splash.
THEOREM EscapesElsewhere ==
    ASSUME ~EarlyTicks
    PROVE  Spec => [][escaped' # escaped => caller = "other"]_vars
<1>1. ASSUME TypeOK, CallerInv, BarrierHolds, [Next]_vars, ~escaped, escaped'
      PROVE  caller = "other"
  <2>1. PostThrowsOut
    BY <1>1, EscapesByThrow
  <2>2. CASE pc = "stop"
    BY <1>1, <2>1, <2>2 DEF PostThrowsOut, Direct, OwnsWindow, TypeOK, FlagsOK, CallerInv,
       InCall, Threads
  <2>3. CASE pc = "post"
    BY <1>1, <2>3 DEF BarrierHolds, BarrierInv
  <2> QED
    BY <2>1, <2>2, <2>3 DEF PostThrowsOut
<1>2. /\ TypeOK /\ CallerInv /\ BarrierHolds /\ (TypeOK /\ CallerInv /\ BarrierHolds)'
      /\ [Next]_vars
      => [escaped' # escaped => caller = "other"]_vars
  BY <1>1, EscapedNext DEF TypeOK, FlagsOK
<1> QED
  BY <1>2, Inductive, PTL DEF Spec

\* If, moreover, no world ends between the first and the last registration, the
\* hooks never look at a world that is gone.
LEMMA WorldInductive ==
    ASSUME ~EarlyTicks, ~WorldsEndMidway
    PROVE  Spec => []WorldHolds
<1> DEFINE Inv == TypeOK /\ CallerInv /\ BarrierHolds
<1>1. Init => WorldHolds
  BY LiveAssumption
     DEF Init, WorldHolds, WorldInv, Doing, Resting
<1>2. Inv /\ WorldHolds /\ [Next]_vars => WorldHolds'
  BY WorldNext
<1> QED
  BY <1>1, <1>2, Inductive, PTL DEF Spec

\* No use of a world after its destruction, as long as no exception left Shutdown.
THEOREM WorldIsAlive ==
    ASSUME ~EarlyTicks, ~WorldsEndMidway
    PROVE  Spec => []NoDanglingWorld
<1>1. WorldHolds => NoDanglingWorld
  BY DEF WorldHolds, WorldInv, NoDanglingWorld
<1> QED
  BY <1>1, WorldInductive, PTL

\* Every store of a snapshot agrees with the world pointer.
LEMMA SnapshotNext ==
    SnapshotOfThisWorld /\ [Next]_vars => SnapshotOfThisWorld'
<1> SUFFICES ASSUME SnapshotOfThisWorld, [Next]_vars
             PROVE  SnapshotOfThisWorld'
  OBVIOUS
<1> USE DEF engine, loader, cache, threads, host, Doing, Resting, Returning, SnapshotOfThisWorld
<1>1. CASE EnterTick
  BY <1>1 DEF EnterTick, GameThreadIsFree
<1>2. CASE OnEngineTick
  BY <1>2 DEF OnEngineTick, RecoverWorld, CurrentWorldWithPlayer, Captured
<1>3. CASE OnWorldBeginPlay
  BY <1>3 DEF OnWorldBeginPlay
<1>4. CASE OnWorldEndPlay
  BY <1>4 DEF OnWorldEndPlay, ForgetWorld, Destroy
<1>5. CASE RunPosted
  BY <1>5 DEF RunPosted, GameThreadIsFree
<1>6. CASE UnregisterOnGameThread
  BY <1>6 DEF UnregisterOnGameThread, UnregisterHooks
<1>7. CASE Return
  BY <1>7 DEF Return
<1>8. CASE Initialize
  BY <1>8 DEF Initialize
<1>9. CASE InitializeFails
  BY <1>9 DEF InitializeFails
<1>10. CASE RegisterOnTick
  BY <1>10 DEF RegisterOnTick
<1>11. CASE RegisterOnWorldBeginPlay
  BY <1>11 DEF RegisterOnWorldBeginPlay
<1>12. CASE RegisterOnBeforeWorldEndPlay
  BY <1>12 DEF RegisterOnBeforeWorldEndPlay
<1>13. CASE InitThrows
  BY <1>13 DEF InitThrows
<1>14. CASE NothingRegistered
  BY <1>14 DEF NothingRegistered
<1>15. CASE UnregisterDirectly
  BY <1>15 DEF UnregisterDirectly, UnregisterHooks, Direct, OwnsWindow
<1>16. CASE PostUnregister
  BY <1>16 DEF PostUnregister, Direct, OwnsWindow
<1>17. CASE PostSetEvent
  BY <1>17 DEF PostSetEvent
<1>18. CASE AwaitCleanup
  BY <1>18 DEF AwaitCleanup
<1>19. CASE Close
  BY <1>19 DEF Close
<1>20. CASE CloseSplash
  BY <1>20 DEF CloseSplash
<1>21. CASE PlayerChanges
  BY <1>21 DEF PlayerChanges, GameThreadIsFree
<1>22. CASE SampleIntervalPasses
  BY <1>22 DEF SampleIntervalPasses
<1>23. CASE ProbeIntervalPasses
  BY <1>23 DEF ProbeIntervalPasses
<1>24. ASSUME NEW w \in Worlds, BeginWorld(w) PROVE SnapshotOfThisWorld'
  BY <1>24 DEF BeginWorld, GameThreadIsFree
<1>25. ASSUME NEW w \in Worlds, EndWorld(w) PROVE SnapshotOfThisWorld'
  BY <1>25 DEF EndWorld, GameThreadIsFree, Destroy
<1>26. ASSUME NEW t \in Threads, Load(t) PROVE SnapshotOfThisWorld'
  BY <1>26 DEF Load, MayCall
<1>27. ASSUME NEW t \in Threads, Unload(t) PROVE SnapshotOfThisWorld'
  BY <1>27 DEF Unload, MayCall
<1>28. CASE AlreadyRegistered
  BY <1>28 DEF AlreadyRegistered
<1>29. CASE PostThrowsOut
  BY <1>29 DEF PostThrowsOut
<1>30. CASE UNCHANGED vars
  BY <1>30 DEF vars
<1> QED
  BY <1>1, <1>2, <1>3, <1>4, <1>5, <1>6, <1>7, <1>8, <1>9, <1>10, <1>11, <1>12,
     <1>13, <1>14, <1>15, <1>16, <1>17, <1>18, <1>19, <1>20, <1>21, <1>22,
     <1>23, <1>24, <1>25, <1>26, <1>27, <1>28, <1>29, <1>30
     DEF Next, GameThreadReturns, EngineStep, InitStep, ShutdownStep

\* No question carries a snapshot of a world that ended or was replaced, whenever
\* the engine ticks and whichever worlds end.
THEOREM SnapshotIsCurrent == Spec => []SnapshotOfThisWorld
<1>1. Init => SnapshotOfThisWorld
  BY DEF Init, SnapshotOfThisWorld
<1>2. SnapshotOfThisWorld /\ [Next]_vars => SnapshotOfThisWorld'
  BY SnapshotNext
<1> QED
  BY <1>1, <1>2, PTL DEF Spec
=============================================================================
