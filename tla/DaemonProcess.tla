--------------------------- MODULE DaemonProcess ---------------------------
(***************************************************************************)
(* A companion daemon as a process (daemon.py: acquire_lock, main): the lock *)
(* it holds on daemon.lock, the identity it writes into that file, and       *)
(* daemon.ready.  The identity, process id and nonce, is abstracted to the   *)
(* process: a new process differs from every identity still on disk.        *)
(***************************************************************************)
CONSTANTS
    Processes,      \* daemon processes, used again when all trace of them is gone
    Nobody          \* no process, or a text that is not the identity of one

ASSUME ProcessAssumption == Nobody \notin Processes

VARIABLES
    daemon,         \* what each process is about to do
    lock,           \* who holds the lock
    lockText,       \* the identity in daemon.lock
    readyText,      \* the identity in daemon.ready
    served          \* history: the processes that were ready

processVars == <<daemon, lock, lockText, readyText, served>>

Holding == {"migrate", "publish", "serve", "unwind"}
Running(d) == daemon[d] # "none"

ProcessInit ==
    /\ daemon = [d \in Processes |-> "none"]
    /\ lock = Nobody /\ lockText = Nobody /\ readyText = Nobody
    /\ served = {}

ProcessTypeOK ==
    /\ daemon \in [Processes -> {"none", "start"} \cup Holding]
    /\ lock \in Processes \cup {Nobody}
    /\ lockText \in Processes \cup {Nobody}
    /\ readyText \in Processes \cup {Nobody}
    /\ served \in SUBSET Processes
    /\ \A d \in Processes : daemon[d] \in Holding <=> lock = d

Becomes(d, state) == daemon' = [daemon EXCEPT ![d] = state]

AnyProcess(d) == TRUE                   \* mutant of Fresh: the nonce is not renewed
Fresh(d) == d \notin {lockText, readyText}

Spawn(d) ==
    /\ daemon[d] = "none" /\ Fresh(d)
    /\ Becomes(d, "start")
    /\ served' = served \ {d}
    /\ UNCHANGED <<lock, lockText, readyText>>

TakeLock(d) ==                          \* mutant of AcquireLock: lock not exclusive
    /\ daemon[d] = "start"
    /\ lock' = d
    /\ readyText' = Nobody
    /\ lockText' = Nobody
    /\ Becomes(d, "migrate")
    /\ UNCHANGED served

AcquireLock(d) ==
    /\ daemon[d] = "start" /\ lock = Nobody
    /\ lock' = d
    /\ readyText' = Nobody
    /\ lockText' = Nobody               \* "starting"
    /\ Becomes(d, "migrate")
    /\ UNCHANGED served

\* DaemonAlreadyRunning
AlreadyRunning(d) ==
    /\ daemon[d] = "start" /\ lock # Nobody
    /\ Becomes(d, "none")
    /\ UNCHANGED <<lock, lockText, readyText, served>>

\* The plugin is migrated, or the migration skipped; publish_lock_identity.
PublishIdentity(d) ==
    /\ daemon[d] = "migrate"
    /\ lockText' = d
    /\ Becomes(d, "publish")
    /\ UNCHANGED <<lock, readyText, served>>

PublishReady(d) ==
    /\ daemon[d] = "publish"
    /\ readyText' = d
    /\ served' = served \cup {d}
    /\ Becomes(d, "serve")
    /\ UNCHANGED <<lock, lockText>>

UnlockFirst(d) ==                       \* mutant of Unwind: swapped with CloseLock
    /\ daemon[d] \in {"migrate", "publish", "serve"}
    /\ lock' = Nobody
    /\ Becomes(d, "unwind")
    /\ UNCHANGED <<lockText, readyText, served>>

\* The finally clause of main, after an exception.
Unwind(d) ==
    /\ daemon[d] \in {"migrate", "publish", "serve"}
    /\ readyText' = Nobody
    /\ Becomes(d, "unwind")
    /\ UNCHANGED <<lock, lockText, served>>

CloseLock(d) ==
    /\ daemon[d] = "unwind"
    /\ lock' = Nobody
    /\ Becomes(d, "none")
    /\ UNCHANGED <<lockText, readyText, served>>

\* The process is killed; the operating system releases its lock.
Die(d) ==
    /\ Becomes(d, "none")
    /\ lock' = IF lock = d THEN Nobody ELSE lock
    /\ UNCHANGED <<lockText, readyText, served>>

\* No daemon takes over the readiness of another, nor deletes it.
ReadyFileIsOwners ==
    \A d \in Processes :
        daemon[d] = "serve" => lock = d /\ lockText = d /\ readyText = d
=============================================================================
