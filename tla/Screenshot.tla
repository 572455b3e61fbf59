----------------------------- MODULE Screenshot -----------------------------
(***************************************************************************)
(* The screenshot of a question (screenshot.py).  On KDE the daemon starts  *)
(* kwin_screenshot_helper.c, which hands KWin a descriptor of a raw file;   *)
(* KWin answers with the dimensions of the image and writes the file on its *)
(* own, also when nobody waits for it any more.  When that fails, and for a *)
(* while after, and on other desktops, Spectacle is run instead; Windows    *)
(* needs neither.  A capture is named by its number; the first one on KDE   *)
(* is the probe of prepare.                                                *)
(***************************************************************************)
EXTENDS Naturals, Sequences, FiniteSets

CONSTANTS
    Platforms,          \* the platforms a daemon runs on: "kde", "linux", "windows"
    MaxCaptures,        \* by platform, a bound: the captures after the probe
    Replies,            \* the metadata KWin may reply with
    Word,               \* 2^32, scaled: the fields of a reply are below it
    MaxDimension,       \* 32768
    MaxImageBytes,      \* 512 MiB, _KWIN_MAX_IMAGE_BYTES too
    LateSpectacle       \* Spectacle may write when nobody waits for it any more

ASSUME ScreenshotAssumption ==
    /\ Platforms \subseteq {"kde", "linux", "windows"}
    /\ MaxCaptures \in [Platforms -> Nat] /\ LateSpectacle \in BOOLEAN
    /\ Word \in Nat \ {0} /\ MaxDimension \in Nat /\ MaxImageBytes \in Nat
    /\ \A r \in Replies :
        /\ {r.width, r.height, r.stride, r.format} \subseteq 0 .. Word - 1
        /\ r.complete \in BOOLEAN

VARIABLES
    platform,
    capture,        \* [pc, id]: where the daemon is, and in which capture
    kwin,           \* "unknown", "ready", "failed": _kwin_direct_ready
    retryLater,     \* before _kwin_retry_after
    registered,     \* the .ready marker: KDE has been told of the helper
    raw,            \* the raw file: 0 when absent, else its inode
    inodes,         \* what every inode holds: who wrote each of its bytes
    writers,        \* KWin's images in progress: [id, inode, at, size]
    info,           \* the metadata the helper was given
    spectacle,      \* the capture Spectacle has yet to write, or 0
    shot            \* shot.png or the probe: 0 when absent, else its capture

shotVars == <<platform, capture, kwin, retryLater, registered, raw, inodes, writers,
              info, spectacle, shot>>

NoInfo == [width |-> 0, height |-> 0, stride |-> 0, format |-> 0, complete |-> FALSE]
Probing == capture.id = 0

ShotInit ==
    /\ platform \in Platforms
    /\ capture = [pc |-> IF platform = "kde" THEN "ensure" ELSE "idle", id |-> 0]
    /\ kwin = IF platform = "linux" THEN "failed" ELSE "unknown"
    /\ retryLater = (platform = "linux")
    /\ registered \in BOOLEAN
    /\ raw = 0 /\ inodes = <<>> /\ writers = {} /\ info = NoInfo
    /\ spectacle = 0 /\ shot = 0

Goto(pc) == capture' = [capture EXCEPT !.pc = pc]

---------------------------------------------------------------------------
(***************************************************************************)
(* The numbers of a reply: uint32_t fields, the size in 64 bits.           *)
(***************************************************************************)
WrappedSize(r) == (r.stride * r.height) % Word      \* mutant of ImageSize: 32 bits
ImageSize(r) == r.stride * r.height

\* Checked by the helper before it waits for the image.
Safe(r) ==
    /\ r.width \in 1 .. MaxDimension /\ r.height \in 1 .. MaxDimension
    /\ r.stride >= r.width * 4
    /\ ImageSize(r) \in 1 .. MaxImageBytes
    /\ r.format \in {4, 5, 6}

\* _KWinImageInfo.validate, on what the helper has printed.
Validate(r) ==
    /\ r.width \in 1 .. MaxDimension /\ r.height \in 1 .. MaxDimension
    /\ r.stride >= r.width * 4
    /\ r.stride * r.height \in 1 .. MaxImageBytes
    /\ r.format \in {4, 5, 6}

---------------------------------------------------------------------------
(***************************************************************************)
(* The daemon before the helper                                            *)
(***************************************************************************)
KeepShot == UNCHANGED shot                  \* mutant of Unlink
Unlink == shot' = 0

KeepRaw == UNCHANGED raw                    \* mutant of UnlinkRaw
UnlinkRaw == raw' = 0

MayTryKWin == platform = "kde" /\ ~(kwin = "failed" /\ retryLater)

\* capture: the picture of an earlier question goes first.
BeginCapture ==
    /\ capture.pc = "idle"
    /\ capture.id < MaxCaptures[platform]
    /\ Unlink
    /\ capture' = [pc |-> IF platform = "windows" THEN "grab"
                          ELSE IF MayTryKWin THEN "ensure" ELSE "spectacle",
                   id |-> capture.id + 1]
    /\ UNCHANGED <<platform, kwin, retryLater, registered, raw, inodes, writers, info,
                   spectacle>>

\* _ensure_kwin_helper: the marker is set once the cache has been rebuilt.
EnsureHelper ==
    /\ capture.pc = "ensure"
    /\ \/ registered /\ UNCHANGED registered
       \/ registered' = TRUE
    /\ Goto("unlink raw")
    /\ UNCHANGED <<platform, kwin, retryLater, raw, inodes, writers, info, spectacle, shot>>

\* The helper is missing, or kbuildsycoca is missing or fails: a marker that
\* went with a changed desktop entry stays away.
EnsureFails ==
    /\ capture.pc = "ensure"
    /\ registered' \in {FALSE, registered}
    /\ Goto("failed")
    /\ UNCHANGED <<platform, kwin, retryLater, raw, inodes, writers, info, spectacle, shot>>

StartHelper ==
    /\ capture.pc = "unlink raw"
    /\ UnlinkRaw
    /\ Goto("open")
    /\ UNCHANGED <<platform, kwin, retryLater, registered, inodes, writers, info, spectacle,
                   shot>>

---------------------------------------------------------------------------
(***************************************************************************)
(* kwin_screenshot_helper.c                                                *)
(***************************************************************************)
\* O_CREAT | O_TRUNC: a new inode, or an old one that is emptied.
OpenRaw ==
    /\ capture.pc = "open"
    /\ IF raw = 0 THEN raw' = Len(inodes) + 1 /\ inodes' = Append(inodes, <<>>)
                  ELSE raw' = raw /\ inodes' = [inodes EXCEPT ![raw] = <<>>]
    /\ Goto("call")
    /\ UNCHANGED <<platform, kwin, retryLater, registered, writers, info, spectacle, shot>>

\* Mutant of KWinAccepts: the descriptor is not the one that was opened.
WrongDescriptor(size) ==
    writers' = writers \cup
        {[id |-> capture.id, inode |-> capture.id + 1, at |-> 0, size |-> size]}
\* KWin has the descriptor and will write an image of this size.
KWinAccepts(size) ==
    writers' = writers \cup
        {[id |-> capture.id, inode |-> raw, at |-> 0, size |-> size]}

CaptureWorkspace ==
    /\ capture.pc = "call"
    /\ \E r \in Replies :
        /\ info' = r
        /\ \E size \in {ImageSize(r) % Word, 1} : KWinAccepts(size)
        /\ Goto(IF r.complete /\ Safe(r) THEN "wait" ELSE "helper failed")
    /\ UNCHANGED <<platform, kwin, retryLater, registered, raw, inodes, spectacle, shot>>

\* The reply does not come in time, but the call may have arrived.
CaptureTimesOut ==
    /\ capture.pc = "call"
    /\ \/ \E r \in Replies : KWinAccepts(ImageSize(r) % Word)
       \/ UNCHANGED writers
    /\ Goto("helper failed")
    /\ UNCHANGED <<platform, kwin, retryLater, registered, raw, inodes, info, spectacle, shot>>

\* Each writer has its own offset; bytes it skips are holes.
KWinWrites ==
    \E w \in writers :
        LET half == w.at + (w.size + 1) \div 2
            until == IF half > w.size THEN w.size ELSE half
            old == inodes[w.inode]
            at(n) == IF n \in w.at + 1 .. until THEN w.id + 1
                     ELSE IF n \in DOMAIN old THEN old[n] ELSE 0
        IN /\ inodes' = [inodes EXCEPT ![w.inode] =
                [n \in 1 .. (IF until > Len(old) THEN until ELSE Len(old)) |-> at(n)]]
           /\ writers' = (writers \ {w}) \cup
                (IF until >= w.size THEN {} ELSE {[w EXCEPT !.at = until]})
           /\ UNCHANGED <<platform, capture, kwin, retryLater, registered, raw, info,
                          spectacle, shot>>

ImageComplete == Len(inodes[raw]) = ImageSize(info)

\* wait_for_image saw all the bytes: the helper prints the metadata.
HelperReports ==
    /\ capture.pc = "wait"
    /\ ImageComplete
    /\ Goto("save")
    /\ UNCHANGED <<platform, kwin, retryLater, registered, raw, inodes, writers, info,
                   spectacle, shot>>

\* Mutant of HelperFails: the helper waits for its image as long as it takes.
WaitForever ==
    /\ capture.pc \in {"open", "call"}
    /\ Goto("helper failed")
    /\ UNCHANGED <<platform, kwin, retryLater, registered, raw, inodes, writers, info,
                   spectacle, shot>>

\* Too many bytes, no more attempts, a failed system call, or subprocess.run
\* has waited long enough and kills it.
HelperFails ==
    /\ capture.pc \in {"open", "call", "wait"}
    /\ Goto("helper failed")
    /\ UNCHANGED <<platform, kwin, retryLater, registered, raw, inodes, writers, info,
                   spectacle, shot>>

---------------------------------------------------------------------------
(***************************************************************************)
(* The daemon after the helper                                             *)
(***************************************************************************)
\* The picture shows the capture all of whose bytes are in the file, or none.
Shown(bytes) ==
    IF \E id \in 0 .. MaxCaptures[platform] : \A n \in DOMAIN bytes : bytes[n] = id + 1
    THEN bytes[1] ELSE MaxCaptures[platform] + 2

\* prepare removes the probe in any case; capture returns the picture.
SaveImage ==
    /\ capture.pc = "save"
    /\ Validate(info) /\ Len(inodes[raw]) = info.stride * info.height
    /\ shot' = IF Probing THEN 0 ELSE Shown(inodes[raw])
    /\ UnlinkRaw
    /\ kwin' = "ready" /\ retryLater' = FALSE
    /\ Goto(IF Probing THEN "idle" ELSE "ask")
    /\ UNCHANGED <<platform, registered, inodes, writers, info, spectacle>>

\* A check fails, or the picture cannot be read or written.
SaveFails ==
    /\ capture.pc \in {"save", "helper failed"}
    /\ UnlinkRaw
    /\ Goto("failed")
    /\ UNCHANGED <<platform, kwin, retryLater, registered, inodes, writers, info, spectacle,
                   shot>>

KWinFails ==
    /\ capture.pc = "failed"
    /\ kwin' = "failed" /\ retryLater' = TRUE
    /\ shot' = 0
    /\ Goto(IF Probing THEN "idle" ELSE "spectacle")
    /\ UNCHANGED <<platform, registered, raw, inodes, writers, info, spectacle>>

RetryTimePasses ==
    /\ platform = "kde" /\ retryLater
    /\ retryLater' = FALSE
    /\ UNCHANGED <<platform, capture, kwin, registered, raw, inodes, writers, info,
                   spectacle, shot>>

RunSpectacle ==
    /\ capture.pc = "spectacle"
    /\ spectacle' = capture.id
    /\ Goto("await")
    /\ UNCHANGED <<platform, kwin, retryLater, registered, raw, inodes, writers, info, shot>>

SpectacleWrites ==
    /\ spectacle # 0
    /\ LateSpectacle \/ capture.pc = "await"
    /\ shot' = spectacle + 1
    /\ spectacle' = 0
    /\ UNCHANGED <<platform, capture, kwin, retryLater, registered, raw, inodes, writers,
                   info>>

GrabWindows ==
    /\ capture.pc = "grab"
    /\ shot' = capture.id + 1
    /\ Goto("await")
    /\ UNCHANGED <<platform, kwin, retryLater, registered, raw, inodes, writers, info,
                   spectacle>>

\* The file exists and is not empty.
ShotFound ==
    /\ capture.pc = "await"
    /\ shot # 0
    /\ Goto("ask")
    /\ UNCHANGED <<platform, kwin, retryLater, registered, raw, inodes, writers, info,
                   spectacle, shot>>

\* No backend, an error of it, or five seconds without a file.
CaptureFails ==
    /\ capture.pc \in {"spectacle", "grab", "await"}
    /\ shot' = 0
    /\ spectacle' = IF LateSpectacle THEN spectacle ELSE 0
    /\ Goto("error")
    /\ UNCHANGED <<platform, kwin, retryLater, registered, raw, inodes, writers, info>>

\* capture_for_analysis ends when Claude has answered, failed or was canceled.
Discard ==
    /\ capture.pc \in {"ask", "error"}
    /\ Unlink
    /\ Goto("idle")
    /\ UNCHANGED <<platform, kwin, retryLater, registered, raw, inodes, writers, info,
                   spectacle>>

DaemonCaptures ==
    \/ EnsureHelper \/ EnsureFails \/ StartHelper
    \/ OpenRaw \/ CaptureWorkspace \/ CaptureTimesOut \/ HelperReports \/ HelperFails
    \/ SaveImage \/ SaveFails \/ KWinFails
    \/ RunSpectacle \/ GrabWindows \/ ShotFound \/ CaptureFails

ShotNext == BeginCapture \/ DaemonCaptures \/ Discard
    \/ KWinWrites \/ SpectacleWrites \/ RetryTimePasses

---------------------------------------------------------------------------
Places == {"idle", "ensure", "unlink raw", "open", "call", "wait", "save", "helper failed",
           "failed", "spectacle", "grab", "await", "ask", "error"}

ShotTypeOK ==
    /\ platform \in Platforms
    /\ capture \in [pc : Places, id : 0 .. MaxCaptures[platform]]
    /\ kwin \in {"unknown", "ready", "failed"}
    /\ retryLater \in BOOLEAN /\ registered \in BOOLEAN
    /\ raw \in 0 .. Len(inodes)
    /\ \A w \in writers : w.inode \in DOMAIN inodes
    /\ shot \in 0 .. MaxCaptures[platform] + 2 /\ spectacle \in 0 .. MaxCaptures[platform]

\* What Claude is shown is a whole picture, made for this question: not that of
\* an earlier question, not one that KWin has not finished, and not one that a
\* capture given up before has written into (README: "the current screenshot").
ShotIsOfThisQuestion == capture.pc = "ask" => shot = capture.id + 1

\* Between questions no picture of the player's screen is left in the files.
NothingLeftBehind == capture.pc = "idle" => shot = 0 /\ raw = 0

\* What the helper reports the daemon accepts: both compute the same size, and
\* the file has it still when the daemon looks, whatever KWin goes on writing.
HelperReportIsAccepted ==
    capture.pc = "save" =>
        Validate(info) /\ Len(inodes[raw]) = info.stride * info.height

---------------------------------------------------------------------------
(***************************************************************************)
(* The inductive invariant.  Every capture has an inode of its own, because *)
(* the name of the last one is removed first (UnlinkRaw); so whatever late *)
(* writers do, this inode has one writer at most, it belongs to the capture *)
(* and has written all that is there.                                      *)
(***************************************************************************)
RawIsOwn ==
    /\ raw # 0 => capture.pc \in {"call", "wait", "save", "helper failed"}
    /\ capture.pc \in {"call", "wait", "save"} => raw # 0 /\ raw = Len(inodes)
    /\ capture.pc = "call" => inodes[raw] = <<>> /\ \A w \in writers : w.inode # raw
    /\ capture.pc \in {"wait", "save"} =>
        /\ Safe(info)
        /\ \A n \in 1 .. Len(inodes[raw]) : inodes[raw][n] = capture.id + 1
        /\ \A w \in writers : w.inode = raw =>
            /\ w.id = capture.id /\ w.at = Len(inodes[raw]) /\ w.at <= w.size
            /\ w.size <= ImageSize(info)
            /\ \A v \in writers : v.inode = raw => v = w
    /\ capture.pc = "save" => Len(inodes[raw]) = ImageSize(info)

\* Spectacle writes only while it is waited for (LateSpectacle = FALSE).
ShotIsOwn ==
    /\ shot # 0 => capture.pc \in {"await", "ask"} /\ shot = capture.id + 1
    /\ capture.pc = "ask" => shot # 0
    /\ spectacle # 0 => capture.pc = "await" /\ spectacle = capture.id /\ shot = 0
=============================================================================
