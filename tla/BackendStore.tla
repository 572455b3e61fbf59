---------------------------- MODULE BackendStore ----------------------------
(***************************************************************************)
(* The downloaded backend (updater.py): the directories backend and          *)
(* backend.previous, and backend.etag, the release the next download asks    *)
(* GitHub to compare with.  Releases are numbered; 0 is no directory or no   *)
(* file.                                                                    *)
(***************************************************************************)
EXTENDS Naturals
CONSTANTS
    MaxRelease,     \* bound: releases
    Good,           \* the releases whose daemon becomes ready
    Broken          \* a directory that lacks files

ASSUME StoreAssumption ==
    /\ MaxRelease \in Nat \ {0}
    /\ Good \in SUBSET (1..MaxRelease)
    /\ Broken \notin Nat

VARIABLES
    release,        \* the latest release on GitHub
    unpacked,       \* the release downloaded into the temporary directory
    installed, previous, etag

storeVars == <<release, unpacked, installed, previous, etag>>

Releases == 1..MaxRelease
Dir == Releases \cup {0, Broken}

StoreInit ==
    /\ release = 1 /\ unpacked = 0
    /\ installed = 0 /\ previous = 0 /\ etag = 0

StoreTypeOK ==
    /\ release \in Releases /\ unpacked \in Releases \cup {0}
    /\ installed \in Dir /\ previous \in Dir /\ etag \in Releases \cup {0}

PublishRelease ==
    /\ release < MaxRelease
    /\ release' = release + 1
    /\ UNCHANGED <<unpacked, installed, previous, etag>>

---------------------------------------------------------------------------
(* update_backend *)

KnownEtag == IF installed \in Releases THEN etag ELSE 0

\* Updates are disabled, or GitHub has nothing new for an etag that is known.
KeepBackend == UNCHANGED storeVars

\* GitHub is not to be reached, or the archive is refused.
DownloadFails ==
    /\ etag' \in {etag, KnownEtag}
    /\ UNCHANGED <<release, unpacked, installed, previous>>

\* _download, extract_backend
Unpack ==
    /\ KnownEtag # release
    /\ etag' = KnownEtag
    /\ unpacked' = release
    /\ UNCHANGED <<release, installed, previous>>

\* rmtree ignores errors: if it may fail, files are left.
Leftovers(dir, mayFail) == IF mayFail /\ dir # 0 THEN {dir, Broken} ELSE {}

ClearPrevious(mayFail) ==
    /\ previous' \in {0} \cup Leftovers(previous, mayFail)
    /\ UNCHANGED <<release, unpacked, installed, etag>>

Overwrite ==                            \* mutant of MoveToPrevious: no copy kept
    /\ installed' = 0
    /\ UNCHANGED <<previous, release, unpacked, etag>>

\* A directory does not replace one with files.
MoveToPrevious ==
    /\ installed = 0 \/ previous = 0
    /\ IF installed # 0 THEN previous' = installed /\ installed' = 0
                        ELSE UNCHANGED <<previous, installed>>
    /\ UNCHANGED <<release, unpacked, etag>>

MoveFails == installed # 0 /\ previous # 0 /\ UNCHANGED storeVars

Place ==
    /\ installed' = unpacked
    /\ UNCHANGED <<release, unpacked, previous, etag>>

\* unpacked.replace raises OSError.
PutBack ==
    /\ IF previous # 0 THEN installed' = previous /\ previous' = 0
                       ELSE UNCHANGED <<previous, installed>>
    /\ UNCHANGED <<release, unpacked, etag>>

RecordEtag ==
    /\ etag' = unpacked
    /\ UNCHANGED <<release, unpacked, installed, previous>>

---------------------------------------------------------------------------
(* rollback_backend; confirm_backend is ClearPrevious. *)

RemoveInstalled(mayFail) ==
    /\ installed' \in {0} \cup Leftovers(installed, mayFail)
    /\ UNCHANGED <<release, unpacked, previous, etag>>

RestorePrevious ==
    /\ previous = 0 \/ installed = 0
    /\ IF previous # 0 THEN installed' = previous /\ previous' = 0
                       ELSE UNCHANGED <<previous, installed>>
    /\ UNCHANGED <<release, unpacked, etag>>

RestoreFails == MoveFails

KeepEtag == UNCHANGED storeVars         \* mutant of ForgetEtag

ForgetEtag ==
    /\ etag' = 0
    /\ UNCHANGED <<release, unpacked, installed, previous>>
=============================================================================
