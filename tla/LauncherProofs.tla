--------------------------- MODULE LauncherProofs ---------------------------
(***************************************************************************)
(* Proofs about Launcher, for any set of processes, any number of releases   *)
(* and any choice of good ones.                                            *)
(***************************************************************************)
EXTENDS Launcher, TLAPS

USE ProcessAssumption, StoreAssumption, LauncherAssumption

\* The death of a process releases what it held.
LEMMA DieTypes ==
    ASSUME ProcessTypeOK, NEW d, Die(d)
    PROVE  ProcessTypeOK'
<1>1. ASSUME NEW e \in Processes
      PROVE  daemon'[e] = IF e = d THEN "none" ELSE daemon[e]
  BY <1>1 DEF ProcessTypeOK, Die, Becomes
<1>2. daemon' \in [Processes -> {"none", "start"} \cup Holding]
  BY DEF ProcessTypeOK, Die, Becomes, Holding
<1>3. \A e \in Processes : daemon'[e] \in Holding <=> lock' = e
  BY <1>1 DEF ProcessTypeOK, Die, Holding
<1> QED
  BY <1>2, <1>3 DEF ProcessTypeOK, Die

\* After a message of the updater the launcher goes on or ends.
LEMMA MessageEnds == \A to : AfterMessage(to) \in {"down", to}
BY DEF AfterMessage

\* A skipped update changes at most what one of its steps may leave.
LEMMA Skipped ==
    ASSUME UpdateSkipped
    PROVE  /\ pc' \in {"down", "select"} /\ UNCHANGED <<processVars, windows, script>>
           /\ \/ pc = "update" /\ DownloadFails
              \/ pc = "move" /\ MoveFails
              \/ pc = "place" /\ PutBack
              \/ pc = "record" /\ Flaky /\ UNCHANGED storeVars
BY MessageEnds DEF UpdateSkipped, StoreStep

\* The types are preserved by every step.
LEMMA TypeNext == TypeOK /\ [Next]_vars => TypeOK'
<1> SUFFICES ASSUME TypeOK, [Next]_vars PROVE TypeOK'
  OBVIOUS
<1> USE DEF TypeOK, StoreTypeOK, ProcessTypeOK, Dir, Releases, Update, Rollback,
       Holding, Running, storeVars, processVars, script
<1>1. CASE Launch
  <2>1. StoreTypeOK' /\ ProcessTypeOK'
    BY <1>1 DEF Launch
  <2>2. pc' = "update" /\ backend' \in Dir /\ mine' = Nobody /\ inGame' = FALSE
    BY <1>1 DEF Launch
  <2>3. UNCHANGED <<windows, after, valid>>
    BY <1>1 DEF Launch
  <2> QED
    BY <2>1, <2>2, <2>3
<1>2. CASE UpdateStep
  BY <1>2, Skipped DEF UpdateStep,
     StoreStep, KeepBackend, DownloadFails, Unpack, ClearPrevious, MoveToPrevious, MoveFails,
     Place, PutBack, RecordEtag, RemoveInstalled, RestorePrevious, RestoreFails,
     ForgetEtag, KnownEtag, Leftovers
<1>3. CASE UseCheckout
  BY <1>3 DEF UseCheckout
<1>4. CASE UseInstalled
  BY <1>4 DEF UseInstalled
<1>5. CASE SyncFails
  BY <1>5 DEF SyncFails
<1>6. ASSUME NEW d \in Processes, StartDaemon(d) PROVE TypeOK'
  BY <1>6 DEF StartDaemon, Spawn, Becomes, Fresh
<1>7. CASE SeeIdentity
  BY <1>7 DEF SeeIdentity
<1>8. CASE SeeReady
  BY <1>8 DEF SeeReady
<1>9. CASE NotReady
  <2>1. ProcessTypeOK'
    BY <1>9, DieTypes DEF NotReady
  <2>2. pc' \in {"alone", "remove"} /\ after' \in {"alone", "down"}
    BY <1>9 DEF NotReady
  <2> QED
    BY <1>9, <2>1, <2>2 DEF NotReady
<1>10. CASE RollbackStep
  BY <1>10, MessageEnds DEF RollbackStep,
     StoreStep, KeepBackend, Unpack, ClearPrevious, MoveToPrevious, MoveFails,
     Place, PutBack, RecordEtag, RemoveInstalled, RestorePrevious, RestoreFails,
     ForgetEtag, KnownEtag, Leftovers
<1>11. CASE Confirm
  BY <1>11 DEF Confirm, ClearPrevious, Leftovers
<1>12. CASE DaemonEnded
  BY <1>12 DEF DaemonEnded
<1>13. CASE GameEnds
  <2>1. ProcessTypeOK'
    BY <1>13, DieTypes DEF GameEnds
  <2> QED
    BY <1>13, <2>1 DEF GameEnds
<1>14. CASE Kill
  BY <1>14 DEF Kill, Leftovers
<1>15. CASE GitHub
  BY <1>15 DEF GitHub, PublishRelease
<1>16. ASSUME NEW d \in Processes, DaemonProgress(d) PROVE TypeOK'
  BY <1>16 DEF DaemonProgress, AcquireLock, AlreadyRunning, PublishIdentity,
     PublishReady, CloseLock, Becomes
<1>17. ASSUME NEW d \in Processes, DaemonEnds(d) PROVE TypeOK'
  BY <1>17 DEF DaemonEnds, Unwind, Die, Becomes
<1>18. CASE UNCHANGED vars
  BY <1>18 DEF vars
<1> QED
  BY <1>1, <1>2, <1>3, <1>4, <1>5, <1>6, <1>7, <1>8, <1>9, <1>10,
     <1>11, <1>12, <1>13, <1>14, <1>15, <1>16, <1>17, <1>18
     DEF Next, LauncherProgress

\* Only the daemon that holds the lock writes daemon.lock and daemon.ready.
LEMMA OwnersNext == TypeOK /\ OwnersInv /\ [Next]_vars => OwnersInv'
<1> SUFFICES ASSUME TypeOK /\ OwnersInv, [Next]_vars PROVE OwnersInv'
  OBVIOUS
<1> USE DEF TypeOK, ProcessTypeOK, Holding, Running, OwnersInv, ReadyFileIsOwners, processVars
<1>1. CASE Launch
  BY <1>1 DEF Launch
<1>2. CASE UpdateStep
  BY <1>2, Skipped DEF UpdateStep, StoreStep
<1>3. CASE UseCheckout
  BY <1>3 DEF UseCheckout
<1>4. CASE UseInstalled
  BY <1>4 DEF UseInstalled
<1>5. CASE SyncFails
  BY <1>5 DEF SyncFails
<1>6. ASSUME NEW d \in Processes, StartDaemon(d) PROVE OwnersInv'
  BY <1>6 DEF StartDaemon, Spawn, Becomes, Fresh
<1>7. CASE SeeIdentity
  BY <1>7 DEF SeeIdentity
<1>8. CASE SeeReady
  BY <1>8 DEF SeeReady
<1>9. CASE NotReady
  BY <1>9 DEF NotReady, WaitEnds, Die, Becomes
<1>10. CASE RollbackStep
  BY <1>10, MessageEnds DEF RollbackStep, StoreStep
<1>11. CASE Confirm
  BY <1>11 DEF Confirm, ClearPrevious, Leftovers
<1>12. CASE DaemonEnded
  BY <1>12 DEF DaemonEnded
<1>13. CASE GameEnds
  BY <1>13 DEF GameEnds, Die, Becomes
<1>14. CASE Kill
  BY <1>14 DEF Kill, Leftovers
<1>15. CASE GitHub
  BY <1>15 DEF GitHub, PublishRelease
<1>16. ASSUME NEW d \in Processes, DaemonProgress(d) PROVE OwnersInv'
  <2>1. CASE AcquireLock(d)
    BY <1>16, <2>1 DEF AcquireLock, Becomes
  <2>2. CASE AlreadyRunning(d)
    BY <1>16, <2>2 DEF AlreadyRunning, Becomes
  <2>3. CASE PublishIdentity(d)
    BY <1>16, <2>3 DEF PublishIdentity, Becomes
  <2>4. CASE CloseLock(d)
    BY <1>16, <2>4 DEF CloseLock, Becomes
  <2>5. CASE PublishReady(d)
    <3>1. lock = d /\ lockText = d /\ lockText' = d /\ lock' = d /\ readyText' = d
      BY <1>16, <2>5 DEF PublishReady
    <3>2. \A e \in Processes : e # d => daemon'[e] = daemon[e]
      BY <2>5 DEF PublishReady, Becomes
    <3> QED
      BY <3>1, <3>2
  <2> QED
    BY <1>16, <2>1, <2>2, <2>3, <2>4, <2>5 DEF DaemonProgress
<1>17. ASSUME NEW d \in Processes, DaemonEnds(d) PROVE OwnersInv'
  BY <1>17 DEF DaemonEnds, Unwind, Die, Becomes
<1>18. CASE UNCHANGED vars
  BY <1>18 DEF vars
<1> QED
  BY <1>1, <1>2, <1>3, <1>4, <1>5, <1>6, <1>7, <1>8, <1>9, <1>10,
     <1>11, <1>12, <1>13, <1>14, <1>15, <1>16, <1>17, <1>18
     DEF Next, LauncherProgress

\* Nor does a readiness outlive its being that of a daemon that was ready.
LEMMA ServedNext == TypeOK /\ ServedInv /\ [Next]_vars => ServedInv'
<1> SUFFICES ASSUME TypeOK /\ ServedInv, [Next]_vars PROVE ServedInv'
  OBVIOUS
<1> USE DEF TypeOK, ProcessTypeOK, Running, ServedInv, GameNeedsReadyDaemon, processVars, script
<1>1. CASE Launch
  BY <1>1 DEF Launch
<1>2. CASE UpdateStep
  BY <1>2, Skipped DEF UpdateStep, StoreStep
<1>3. CASE UseCheckout
  BY <1>3 DEF UseCheckout
<1>4. CASE UseInstalled
  BY <1>4 DEF UseInstalled
<1>5. CASE SyncFails
  BY <1>5 DEF SyncFails
<1>6. ASSUME NEW d \in Processes, StartDaemon(d) PROVE ServedInv'
  BY <1>6 DEF StartDaemon, Spawn, Becomes, Fresh
<1>7. CASE SeeIdentity
  BY <1>7 DEF SeeIdentity
<1>8. CASE SeeReady
  BY <1>8 DEF SeeReady
<1>9. CASE NotReady
  BY <1>9 DEF NotReady, WaitEnds, Die, Becomes
<1>10. CASE RollbackStep
  BY <1>10, MessageEnds DEF RollbackStep, StoreStep
<1>11. CASE Confirm
  BY <1>11 DEF Confirm, ClearPrevious, Leftovers
<1>12. CASE DaemonEnded
  BY <1>12 DEF DaemonEnded
<1>13. CASE GameEnds
  BY <1>13 DEF GameEnds, Die, Becomes
<1>14. CASE Kill
  BY <1>14 DEF Kill, Leftovers
<1>15. CASE GitHub
  BY <1>15 DEF GitHub, PublishRelease
<1>16. ASSUME NEW d \in Processes, DaemonProgress(d) PROVE ServedInv'
  BY <1>16 DEF DaemonProgress, AcquireLock, AlreadyRunning, PublishIdentity,
     PublishReady, CloseLock, Becomes
<1>17. ASSUME NEW d \in Processes, DaemonEnds(d) PROVE ServedInv'
  BY <1>17 DEF DaemonEnds, Unwind, Die, Becomes
<1>18. CASE UNCHANGED vars
  BY <1>18 DEF vars
<1> QED
  BY <1>1, <1>2, <1>3, <1>4, <1>5, <1>6, <1>7, <1>8, <1>9, <1>10,
     <1>11, <1>12, <1>13, <1>14, <1>15, <1>16, <1>17, <1>18
     DEF Next, LauncherProgress

\* The etag stays behind the release it may be compared with.
LEMMA EtagNext == TypeOK /\ EtagInv /\ ~CutRollback /\ [Next]_vars => EtagInv'
<1> SUFFICES ASSUME TypeOK /\ EtagInv /\ ~CutRollback, [Next]_vars PROVE EtagInv'
  OBVIOUS
<1> USE DEF TypeOK, StoreTypeOK, Dir, Releases, EtagInv, Unpacked, storeVars, script
<1>1. CASE Launch
  BY <1>1 DEF Launch
<1>2. CASE UpdateStep
  <2>1. CASE StoreStep("update", KeepBackend, "select")
    BY <2>1 DEF StoreStep, KeepBackend
  <2>2. CASE StoreStep("update", Unpack, "clear")
    BY <2>2 DEF StoreStep, Unpack, KnownEtag
  <2>3. CASE StoreStep("clear", ClearPrevious(Flaky), "move")
    BY <2>3 DEF StoreStep, ClearPrevious
  <2>4. CASE StoreStep("move", MoveToPrevious, "place")
    BY <2>4 DEF StoreStep, MoveToPrevious
  <2>5. CASE UpdateSkipped
    BY <2>5, Skipped DEF DownloadFails, MoveFails, PutBack, KnownEtag
  <2>6. CASE StoreStep("place", Place, "record")
    BY <2>6 DEF StoreStep, Place
  <2>7. CASE StoreStep("record", RecordEtag, "select")
    BY <2>7 DEF StoreStep, RecordEtag
  <2> QED
    BY <1>2, <2>1, <2>2, <2>3, <2>4, <2>5, <2>6, <2>7 DEF UpdateStep
<1>3. CASE UseCheckout
  BY <1>3 DEF UseCheckout
<1>4. CASE UseInstalled
  BY <1>4 DEF UseInstalled
<1>5. CASE SyncFails
  BY <1>5 DEF SyncFails
<1>6. ASSUME NEW d \in Processes, StartDaemon(d) PROVE EtagInv'
  BY <1>6 DEF StartDaemon, Spawn, Becomes, Fresh
<1>7. CASE SeeIdentity
  BY <1>7 DEF SeeIdentity
<1>8. CASE SeeReady
  BY <1>8 DEF SeeReady
<1>9. CASE NotReady
  BY <1>9 DEF NotReady, WaitEnds, Die, Becomes
<1>10. CASE RollbackStep
  BY <1>10, MessageEnds DEF RollbackStep,
     StoreStep, KeepBackend, Unpack, ClearPrevious, MoveToPrevious, MoveFails,
     Place, PutBack, RecordEtag, RemoveInstalled, RestorePrevious, RestoreFails,
     ForgetEtag, KnownEtag, Leftovers
<1>11. CASE Confirm
  BY <1>11 DEF Confirm, ClearPrevious, Leftovers
<1>12. CASE DaemonEnded
  BY <1>12 DEF DaemonEnded
<1>13. CASE GameEnds
  BY <1>13 DEF GameEnds, Die, Becomes
<1>14. CASE Kill
  BY <1>14 DEF Kill, Leftovers
<1>15. CASE GitHub
  BY <1>15 DEF GitHub, PublishRelease
<1>16. ASSUME NEW d \in Processes, DaemonProgress(d) PROVE EtagInv'
  BY <1>16 DEF DaemonProgress, AcquireLock, AlreadyRunning, PublishIdentity,
     PublishReady, CloseLock, Becomes
<1>17. ASSUME NEW d \in Processes, DaemonEnds(d) PROVE EtagInv'
  BY <1>17 DEF DaemonEnds, Unwind, Die, Becomes
<1>18. CASE UNCHANGED vars
  BY <1>18 DEF vars
<1> QED
  BY <1>1, <1>2, <1>3, <1>4, <1>5, <1>6, <1>7, <1>8, <1>9, <1>10,
     <1>11, <1>12, <1>13, <1>14, <1>15, <1>16, <1>17, <1>18
     DEF Next, LauncherProgress

\* If nothing is flaky, the daemon of this launcher is the only one.
LEMMA AloneNext == TypeOK /\ AloneInv /\ ~Flaky /\ [Next]_vars => AloneInv'
<1> SUFFICES ASSUME TypeOK /\ AloneInv /\ ~Flaky, [Next]_vars PROVE AloneInv'
  OBVIOUS
<1> USE DEF TypeOK, ProcessTypeOK, Holding, Running, Works, AloneInv, Waiting, Update, Rollback,
       processVars, script
<1>1. CASE Launch
  BY <1>1 DEF Launch
<1>2. CASE UpdateStep
  BY <1>2, Skipped DEF UpdateStep, StoreStep
<1>3. CASE UseCheckout
  BY <1>3 DEF UseCheckout
<1>4. CASE UseInstalled
  BY <1>4 DEF UseInstalled
<1>5. CASE SyncFails
  BY <1>5 DEF SyncFails
<1>6. ASSUME NEW d \in Processes, StartDaemon(d) PROVE AloneInv'
  BY <1>6 DEF StartDaemon, Spawn, Becomes, Fresh
<1>7. CASE SeeIdentity
  BY <1>7 DEF SeeIdentity
<1>8. CASE SeeReady
  BY <1>8 DEF SeeReady
<1>9. CASE NotReady
  BY <1>9 DEF NotReady, WaitEnds, Die, Becomes
<1>10. CASE RollbackStep
  BY <1>10, MessageEnds DEF RollbackStep, StoreStep
<1>11. CASE Confirm
  BY <1>11 DEF Confirm, ClearPrevious, Leftovers
<1>12. CASE DaemonEnded
  BY <1>12 DEF DaemonEnded
<1>13. CASE GameEnds
  BY <1>13 DEF GameEnds, Die, Becomes
<1>14. CASE Kill
  BY <1>14 DEF Kill
<1>15. CASE GitHub
  BY <1>15 DEF GitHub, PublishRelease
<1>16. ASSUME NEW d \in Processes, DaemonProgress(d) PROVE AloneInv'
  BY <1>16 DEF DaemonProgress, AcquireLock, AlreadyRunning, PublishIdentity,
     PublishReady, CloseLock, Becomes
<1>17. ASSUME NEW d \in Processes, DaemonEnds(d) PROVE AloneInv'
  BY <1>17 DEF DaemonEnds, MayEnd, Unwind, Die, Becomes
<1>18. CASE UNCHANGED vars
  BY <1>18 DEF vars
<1> QED
  BY <1>1, <1>2, <1>3, <1>4, <1>5, <1>6, <1>7, <1>8, <1>9, <1>10,
     <1>11, <1>12, <1>13, <1>14, <1>15, <1>16, <1>17, <1>18
     DEF Next, LauncherProgress

\* Nor does the copy of the valid backend go before another one is confirmed.
LEMMA CopyNext == TypeOK /\ AloneInv /\ CopyInv /\ ~Flaky /\ SharedRead /\ [Next]_vars => CopyInv'
<1> SUFFICES ASSUME TypeOK /\ AloneInv /\ CopyInv /\ ~Flaky /\ SharedRead, [Next]_vars PROVE CopyInv'
  OBVIOUS
<1> USE DEF TypeOK, StoreTypeOK, Dir, Releases, AloneInv, CopyInv, Waiting, Serving, Update,
       Rollback, Unpacked, Works, CanRead, Running, storeVars, script
<1>1. CASE Launch
  BY <1>1 DEF Launch
<1>2. CASE UpdateStep
  <2>1. CASE StoreStep("update", KeepBackend, "select")
    BY <2>1 DEF StoreStep, KeepBackend
  <2>2. CASE StoreStep("update", Unpack, "clear")
    BY <2>2 DEF StoreStep, Unpack
  <2>3. CASE StoreStep("clear", ClearPrevious(Flaky), "move")
    BY <2>3 DEF StoreStep, ClearPrevious, Leftovers
  <2>4. CASE StoreStep("move", MoveToPrevious, "place")
    BY <2>4 DEF StoreStep, MoveToPrevious
  <2>5. CASE UpdateSkipped
    BY <2>5, Skipped DEF DownloadFails, MoveFails, PutBack
  <2>6. CASE StoreStep("place", Place, "record")
    BY <2>6 DEF StoreStep, Place
  <2>7. CASE StoreStep("record", RecordEtag, "select")
    BY <2>7 DEF StoreStep, RecordEtag
  <2> QED
    BY <1>2, <2>1, <2>2, <2>3, <2>4, <2>5, <2>6, <2>7 DEF UpdateStep
<1>3. CASE UseCheckout
  BY <1>3 DEF UseCheckout
<1>4. CASE UseInstalled
  BY <1>4 DEF UseInstalled
<1>5. CASE SyncFails
  BY <1>5 DEF SyncFails
<1>6. ASSUME NEW d \in Processes, StartDaemon(d) PROVE CopyInv'
  BY <1>6 DEF StartDaemon, Spawn, Becomes, Fresh
<1>7. CASE SeeIdentity
  BY <1>7 DEF SeeIdentity
<1>8. CASE SeeReady
  BY <1>8 DEF SeeReady
<1>9. CASE NotReady
  BY <1>9 DEF NotReady, WaitEnds, Die, Becomes
<1>10. CASE RollbackStep
  BY <1>10, MessageEnds DEF RollbackStep,
     StoreStep, KeepBackend, Unpack, ClearPrevious, MoveToPrevious, MoveFails,
     Place, PutBack, RecordEtag, RemoveInstalled, RestorePrevious, RestoreFails,
     ForgetEtag, KnownEtag, Leftovers
<1>11. CASE Confirm
  BY <1>11 DEF Confirm, ClearPrevious, Leftovers
<1>12. CASE DaemonEnded
  BY <1>12 DEF DaemonEnded
<1>13. CASE GameEnds
  BY <1>13 DEF GameEnds, Die, Becomes
<1>14. CASE Kill
  BY <1>14 DEF Kill
<1>15. CASE GitHub
  BY <1>15 DEF GitHub, PublishRelease
<1>16. ASSUME NEW d \in Processes, DaemonProgress(d) PROVE CopyInv'
  BY <1>16 DEF DaemonProgress, AcquireLock, AlreadyRunning, PublishIdentity,
     PublishReady, CloseLock, Becomes
<1>17. ASSUME NEW d \in Processes, DaemonEnds(d) PROVE CopyInv'
  BY <1>17 DEF DaemonEnds, MayEnd, Unwind, Die, Becomes
<1>18. CASE UNCHANGED vars
  BY <1>18 DEF vars
<1> QED
  BY <1>1, <1>2, <1>3, <1>4, <1>5, <1>6, <1>7, <1>8, <1>9, <1>10,
     <1>11, <1>12, <1>13, <1>14, <1>15, <1>16, <1>17, <1>18
     DEF Next, LauncherProgress

\* Wherever the copy is, the valid backend is kept.
LEMMA CopyKeeps == TypeOK /\ CopyInv => ValidBackendKept
BY DEF TypeOK, CopyInv, ValidBackendKept, Update, Rollback, Serving, Waiting

\* The steps that change neither the backend, nor whether the game runs, are none of
\* the trial's.
LEMMA TrialStutters ==
    ASSUME UNCHANGED <<valid, installed, previous, backend, inGame>>,
           ~inGame \/ (pc = "down" <=> pc' = "down")
    PROVE  UNCHANGED Trial!vars
BY DEF Trial!vars

\* Each step is one of the trial of a backend, or none.
LEMMA TrialNext ==
    ASSUME ~Flaky, SharedRead, TypeOK, AloneInv, CopyInv, CopyInv', [Next]_vars
    PROVE  [Trial!Next]_(Trial!vars)
<1> DEFINE confirmed == IF valid \in {installed, previous} THEN valid ELSE 0
           candidate == IF installed \in Releases \ {valid} THEN installed ELSE 0
           playing == IF inGame /\ pc # "down" THEN {backend} ELSE {}
<1>0. valid \in Nat /\ release \in Releases /\ 0 \notin Good
  BY DEF TypeOK, StoreTypeOK, CopyInv, Releases
<1>a. confirmed = valid /\ confirmed' = valid'
  <2>1. TypeOK'
    BY TypeNext
  <2> USE DEF TypeOK, CopyInv, ValidBackendKept, Update, Rollback, Serving, Waiting
  <2>2. ValidBackendKept /\ ValidBackendKept'
    BY <2>1
  <2> QED
    BY <2>2 DEF ValidBackendKept
<1>1. CASE Launch
  BY <1>1, TrialStutters DEF Launch, Trial!vars, storeVars
<1>2. CASE UpdateStep
  <2>1. ~inGame /\ UNCHANGED <<valid, backend, inGame>>
    BY <1>2, Skipped DEF UpdateStep, StoreStep, CopyInv, Update, script
  <2>2. CASE UNCHANGED candidate
    BY <1>a, <2>1, <2>2 DEF Trial!vars
  <2>3. CASE StoreStep("place", Place, "record") /\ candidate' # candidate
    <3>1. candidate = 0 /\ candidate' \in valid + 1 .. MaxRelease
      BY <2>1, <2>3, <1>0 DEF StoreStep, Place, CopyInv, Unpacked, Releases
    <3>2. Trial!Offer
      BY <1>a, <2>1, <3>1 DEF Trial!Offer
    <3> QED
      BY <3>2 DEF Trial!Next
  <2>4. UNCHANGED candidate \/ StoreStep("place", Place, "record")
    BY <1>2, <2>1, <1>0, Skipped DEF UpdateStep, StoreStep, KeepBackend, DownloadFails, Unpack,
       ClearPrevious, MoveToPrevious, MoveFails, PutBack, RecordEtag, CopyInv, storeVars, Releases
  <2> QED
    BY <2>2, <2>3, <2>4
<1>3. CASE UseCheckout
  BY <1>3, TrialStutters DEF UseCheckout, storeVars, script
<1>4. CASE UseInstalled
  <2>1. ~inGame /\ UNCHANGED <<valid, inGame, installed>>
    BY <1>4 DEF UseInstalled, CopyInv, storeVars
  <2> QED
    BY <1>a, <2>1 DEF Trial!vars
<1>5. CASE SyncFails
  BY <1>5, TrialStutters DEF SyncFails, storeVars
<1>6. ASSUME NEW d \in Processes, StartDaemon(d) PROVE UNCHANGED Trial!vars
  BY <1>6, TrialStutters DEF StartDaemon, storeVars
<1>7. CASE SeeIdentity
  BY <1>7, TrialStutters DEF SeeIdentity, storeVars, script
<1>8. CASE SeeReady
  BY <1>8, TrialStutters DEF SeeReady, storeVars, script
<1>9. CASE NotReady
  <2>1. UNCHANGED <<valid, installed, previous, backend, inGame>> /\ pc # "down" /\ pc' # "down"
    BY <1>9 DEF NotReady, WaitEnds, storeVars
  <2> QED
    BY <2>1, TrialStutters
<1>10. CASE RollbackStep
  <2>1. UNCHANGED <<valid, backend, inGame>>
    BY <1>10, MessageEnds DEF RollbackStep, StoreStep, script
  <2>2. playing' = playing
    BY <1>10, <2>1 DEF RollbackStep, StoreStep, CopyInv, Rollback
  <2>3. CASE StoreStep("remove", RemoveInstalled(Flaky), "restore")
    <3>1. candidate \notin Good \cup {0} /\ candidate' = 0
      BY <2>3, <1>0 DEF StoreStep, RemoveInstalled, Leftovers, CopyInv, Releases
    <3>2. Trial!Refuse
      BY <1>a, <2>1, <2>2, <3>1 DEF Trial!Refuse
    <3> QED
      BY <3>2 DEF Trial!Next
  <2>4. CASE ~StoreStep("remove", RemoveInstalled(Flaky), "restore")
    <3>1. candidate = 0 /\ candidate' = 0
      BY <1>10, <2>1, <2>4 DEF RollbackStep, StoreStep, RestorePrevious, RestoreFails, MoveFails,
         ForgetEtag, CopyInv
    <3> QED
      BY <1>a, <2>1, <2>2, <3>1 DEF Trial!vars
  <2> QED
    BY <2>3, <2>4
<1>11. CASE Confirm
  <2>1. /\ pc = "confirm" /\ pc' = "game" /\ inGame' /\ UNCHANGED <<installed, backend>>
        /\ valid' = IF backend # 0 THEN backend ELSE valid
    BY <1>11 DEF Confirm, ClearPrevious
  <2>2. playing' = {backend} /\ candidate' = 0
    BY <2>1, <1>0 DEF CopyInv, Serving, Waiting
  <2>3. CASE candidate # 0
    <3>1. backend = candidate /\ candidate \in Good /\ valid' = candidate
      BY <2>1, <2>3 DEF CopyInv, AloneInv, Works, Serving, Waiting
    <3>2. Trial!Accept
      BY <1>a, <2>2, <3>1 DEF Trial!Accept
    <3> QED
      BY <3>2 DEF Trial!Next
  <2>4. CASE candidate = 0
    <3>1. valid' = valid /\ backend \in {valid, 0}
      BY <2>1, <2>4, <1>0 DEF CopyInv, TypeOK, Dir, StoreTypeOK, Serving, Waiting
    <3>2. CASE inGame
      BY <1>a, <3>1, <3>2, <2>1, <2>2, <2>4 DEF Trial!vars
    <3>3. CASE ~inGame
      <4>1. Trial!Play
        BY <1>a, <2>2, <2>4, <3>1, <3>3 DEF Trial!Play
      <4> QED
        BY <4>1 DEF Trial!Next
    <3> QED
      BY <3>2, <3>3
  <2> QED
    BY <2>3, <2>4
<1>12. CASE DaemonEnded
  BY <1>12, TrialStutters DEF DaemonEnded, storeVars, script
<1>13. CASE GameEnds
  <2>1. UNCHANGED <<valid, installed, previous, backend, inGame>> /\ pc' = "down"
    BY <1>13 DEF GameEnds, storeVars, script
  <2>2. CASE inGame
    <3>1. playing # {} /\ playing' = {} /\ candidate' = candidate
      BY <1>13, <2>1, <2>2 DEF GameEnds
    <3>2. Trial!Stop
      BY <1>a, <2>1, <3>1 DEF Trial!Stop
    <3> QED
      BY <3>2 DEF Trial!Next
  <2>3. CASE ~inGame
    BY <2>1, <2>3, TrialStutters
  <2> QED
    BY <2>2, <2>3
<1>14. CASE Kill
  BY <1>14 DEF Kill
<1>15. CASE GitHub
  BY <1>15, TrialStutters DEF GitHub, PublishRelease, script
<1>16. ASSUME NEW d \in Processes, DaemonProgress(d) \/ DaemonEnds(d) PROVE UNCHANGED Trial!vars
  BY <1>16, TrialStutters DEF DaemonProgress, DaemonEnds, storeVars, script
<1>17. CASE UNCHANGED vars
  BY <1>17, TrialStutters DEF vars, storeVars, script
<1> QED
  BY <1>1, <1>2, <1>3, <1>4, <1>5, <1>6, <1>7, <1>8, <1>9, <1>10,
     <1>11, <1>12, <1>13, <1>14, <1>15, <1>16, <1>17
     DEF Next, LauncherProgress

\* Type correctness; in particular at most one daemon holds the lock, whichever
\* launchers and daemons were killed.
THEOREM LauncherTypes == Spec => []TypeOK
<1>1. Init => TypeOK
  <2> SUFFICES ASSUME Init PROVE TypeOK
    OBVIOUS
  <2>1. StoreTypeOK
    BY DEF Init, StoreInit, StoreTypeOK, Dir, Releases
  <2>2. ProcessTypeOK
    BY DEF Init, ProcessInit, ProcessTypeOK, Holding
  <2>3. backend \in Dir /\ valid \in Dir
    BY DEF Init, Dir
  <2> QED
    BY <2>1, <2>2, <2>3 DEF Init, TypeOK
<1> QED
  BY <1>1, TypeNext, PTL DEF Spec

\* A daemon that serves is the one both files name: no other has taken over its
\* readiness or deleted it.
THEOREM ReadinessIsOwned == Spec => []ReadyFileIsOwners
<1>1. Init => OwnersInv
  BY DEF Init, ProcessInit, OwnersInv, ReadyFileIsOwners
<1>2. OwnersInv => ReadyFileIsOwners
  BY DEF OwnersInv
<1> QED
  BY <1>1, <1>2, OwnersNext, LauncherTypes, PTL DEF Spec

\* The backend is confirmed and the game started only after the daemon that this
\* launcher has started last was ready.
THEOREM GameAfterReady == Spec => []GameNeedsReadyDaemon
<1>1. Init => ServedInv
  BY DEF Init, ProcessInit, ServedInv, GameNeedsReadyDaemon
<1>2. ServedInv => GameNeedsReadyDaemon
  BY DEF ServedInv
<1> QED
  BY <1>1, <1>2, ServedNext, LauncherTypes, PTL DEF Spec

\* No update is missed, if no launcher is killed between the last two steps of a
\* roll-back.
THEOREM UpdatesAreSeen ==
    ASSUME ~CutRollback
    PROVE  Spec => []NoMissedUpdate
<1>1. Init => EtagInv
  BY DEF Init, StoreInit, EtagInv, Unpacked, Releases
<1>2. EtagInv => NoMissedUpdate
  BY DEF EtagInv, NoMissedUpdate
<1>3. TypeOK /\ EtagInv /\ [Next]_vars => EtagInv'
  BY EtagNext
<1> QED
  BY <1>1, <1>2, <1>3, LauncherTypes, PTL DEF Spec

\* Without kills and failures of good backends, daemons and copies are where they
\* should be.
LEMMA Steady ==
    ASSUME ~Flaky, SharedRead
    PROVE  Spec => [](AloneInv /\ CopyInv)
<1>1. Init => AloneInv /\ CopyInv
  BY DEF Init, StoreInit, ProcessInit, AloneInv, CopyInv, Running, Waiting, Serving, Update,
     Rollback, Unpacked
<1>2. TypeOK /\ AloneInv /\ CopyInv /\ [Next]_vars => AloneInv' /\ CopyInv'
  BY AloneNext, CopyNext
<1> QED
  BY <1>1, <1>2, LauncherTypes, PTL DEF Spec

\* The valid backend stays on disk until another one has become ready, if good
\* backends start and no launcher is killed.
THEOREM ValidBackendStays ==
    ASSUME ~Flaky, SharedRead
    PROVE  Spec => []ValidBackendKept
<1> QED
  BY CopyKeeps, Steady, LauncherTypes, PTL

\* Under the same conditions updater and launchers, with all their steps, implement
\* the trial of a backend.
THEOREM LauncherImplements ==
    ASSUME ~Flaky, SharedRead
    PROVE  Spec => ImplementsTrial
<1>1. Init => Trial!Init
  BY DEF Init, StoreInit, Trial!Init, Releases
<1>2. TypeOK /\ AloneInv /\ CopyInv /\ CopyInv' /\ [Next]_vars => [Trial!Next]_(Trial!vars)
  BY TrialNext
<1> QED
  BY <1>1, <1>2, Steady, LauncherTypes, PTL DEF Spec, ImplementsTrial, Trial!Spec
=============================================================================
