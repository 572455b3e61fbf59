---------------------------- MODULE PromptProofs ----------------------------
(***************************************************************************)
(* Proofs about the exchange that Prompt describes, for every world of     *)
(* the game, every question, every limit of the plugin that is within      *)
(* those of the backend, every set of replies KWin may give and every      *)
(* number of captures: the screenshot of a question (Screenshot), the      *)
(* snapshot that is published, the request file (BridgeText), and what     *)
(* Claude is asked.                                                        *)
(***************************************************************************)
EXTENDS SnapshotProofs

Writer == [id : Nat, inode : Nat, at : Nat, size : Nat]

\* What the steps of Screenshot keep of the types of its variables.
ShotTypes ==
    /\ ShotTypeOK
    /\ inodes \in Seq(Seq(Nat))
    /\ writers \in SUBSET Writer
    /\ info.stride \in Nat /\ info.height \in Nat

USE DEF Goto, Probing

---------------------------------------------------------------------------
(***************************************************************************)
(* Numbers                                                                 *)
(***************************************************************************)
\* The part of a number of bytes that fits a word is no larger than it.
LEMMA RemainderBound ==
    ASSUME NEW n \in Nat, NEW m \in Nat \ {0}
    PROVE  n % m \in Nat /\ n % m <= n /\ n % m < m
OBVIOUS

\* The fields of a reply and the size they make are natural numbers.
LEMMA ReplyNumbers ==
    ASSUME NEW r \in Replies
    PROVE  /\ r.stride \in Nat /\ r.height \in Nat
           /\ ImageSize(r) \in Nat
           /\ ImageSize(r) % Word \in Nat /\ ImageSize(r) % Word <= ImageSize(r)
<1>1. {r.width, r.height, r.stride, r.format} \subseteq 0 .. Word - 1 /\ Word \in Nat \ {0}
    BY ScreenshotAssumption
<1>2. r.stride \in Nat /\ r.height \in Nat
    BY <1>1
<1>3. ImageSize(r) \in Nat
    BY <1>2 DEF ImageSize
<1>4. QED
    BY <1>1, <1>2, <1>3, RemainderBound

---------------------------------------------------------------------------
(***************************************************************************)
(* Types                                                                   *)
(***************************************************************************)
\* The variables of Screenshot have their types at the start.
LEMMA ShotInitTypes == ShotInit => ShotTypes
<1> SUFFICES ASSUME ShotInit PROVE ShotTypes
    OBVIOUS
<1>1. MaxCaptures[platform] \in Nat
    BY ScreenshotAssumption DEF ShotInit
<1>2. ShotTypeOK
    BY <1>1 DEF ShotInit, ShotTypeOK, Places
<1>3. info.stride \in Nat /\ info.height \in Nat
    BY DEF ShotInit, NoInfo
<1>4. QED
    BY <1>2, <1>3 DEF ShotInit, ShotTypes

\* A saved picture is numbered by the capture that wrote it, or is nobody's.
LEMMA ShownNumber ==
    ASSUME ShotTypes, raw # 0, Len(inodes[raw]) # 0
    PROVE  Shown(inodes[raw]) \in 0 .. MaxCaptures[platform] + 2
<1>1. raw \in 1 .. Len(inodes) /\ inodes[raw] \in Seq(Nat)
    BY DEF ShotTypes, ShotTypeOK
<1>2. 1 \in DOMAIN inodes[raw]
    BY <1>1
<1>3. MaxCaptures[platform] \in Nat
    BY ScreenshotAssumption DEF ShotTypes, ShotTypeOK
<1>4. CASE \E id \in 0 .. MaxCaptures[platform] :
                \A n \in DOMAIN inodes[raw] : inodes[raw][n] = id + 1
    <2>1. PICK id \in 0 .. MaxCaptures[platform] : inodes[raw][1] = id + 1
        BY <1>2, <1>4
    <2>2. Shown(inodes[raw]) = inodes[raw][1]
        BY <1>4 DEF Shown
    <2>3. QED
        BY <1>3, <2>1, <2>2
<1>5. CASE ~ \E id \in 0 .. MaxCaptures[platform] :
                \A n \in DOMAIN inodes[raw] : inodes[raw][n] = id + 1
    <2>1. Shown(inodes[raw]) = MaxCaptures[platform] + 2
        BY <1>5 DEF Shown
    <2>2. QED
        BY <1>3, <2>1
<1>6. QED
    BY <1>4, <1>5

\* KWin's reply, or none in time: the new writers are writers.
LEMMA AcceptTypes ==
    ASSUME ShotTypes, raw \in 1 .. Len(inodes),
           NEW size \in Nat, KWinAccepts(size)
    PROVE  writers' \in SUBSET Writer /\ \A w \in writers' : w.inode \in DOMAIN inodes
<1>1. DOMAIN inodes = 1 .. Len(inodes)
    BY DEF ShotTypes
<1>2. [id |-> capture.id, inode |-> raw, at |-> 0, size |-> size] \in Writer
    BY <1>1, ScreenshotAssumption DEF ShotTypes, ShotTypeOK, Writer
<1>3. QED
    BY <1>1, <1>2 DEF ShotTypes, ShotTypeOK, KWinAccepts

---------------------------------------------------------------------------
(***************************************************************************)
(* The raw file                                                            *)
(***************************************************************************)
RawInv == ShotTypes /\ RawIsOwn

\* At the start there is no raw file.
LEMMA RawInit == ShotInit => RawInv
<1>1. ASSUME ShotInit PROVE RawIsOwn
    BY <1>1 DEF ShotInit, RawIsOwn
<1>2. QED
    BY <1>1, ShotInitTypes DEF RawInv

\* The steps that touch neither the raw file nor its writers, in which the
\* daemon is in no place where it has a raw file, before or after.
LEMMA RawElsewhere ==
    ASSUME RawInv, ShotTypeOK',
           UNCHANGED <<raw, inodes, writers, info>>,
           \/ UNCHANGED capture
           \/ capture'.pc \notin {"call", "wait", "save"} /\ raw = 0
           \/ capture'.pc = "helper failed"
    PROVE  RawInv'
<1>1. ShotTypes'
    BY DEF RawInv, ShotTypes
<1>2. RawIsOwn'
    <2>1. CASE UNCHANGED capture
        BY <2>1 DEF RawInv, RawIsOwn, Safe, ImageSize
    <2>2. CASE capture'.pc \notin {"call", "wait", "save"} /\ raw = 0
        BY <2>2 DEF RawIsOwn
    <2>3. CASE capture'.pc = "helper failed"
        BY <2>3 DEF RawIsOwn
    <2>4. QED
        BY <2>1, <2>2, <2>3
<1>3. QED
    BY <1>1, <1>2 DEF RawInv

\* The helper makes a file of its own, which nobody writes yet.
LEMMA RawOpened == RawInv /\ OpenRaw => RawInv'
<1> SUFFICES ASSUME RawInv, OpenRaw PROVE RawInv'
    OBVIOUS
<1>1. raw = 0
    BY DEF RawInv, RawIsOwn, OpenRaw
<1>2. raw' = Len(inodes) + 1 /\ inodes' = Append(inodes, <<>>)
    BY <1>1 DEF OpenRaw
<1>3. inodes \in Seq(Seq(Nat)) /\ <<>> \in Seq(Nat)
    BY DEF RawInv, ShotTypes
<1>4. /\ inodes' \in Seq(Seq(Nat)) /\ Len(inodes') = Len(inodes) + 1
      /\ inodes'[raw'] = <<>>
    BY <1>2, <1>3
<1>5. \A w \in writers : w.inode \in 1 .. Len(inodes)
    BY <1>3 DEF RawInv, ShotTypes, ShotTypeOK
<1>6. capture' \in [pc : Places, id : 0 .. MaxCaptures[platform]] /\ capture'.pc = "call"
    BY DEF OpenRaw, RawInv, ShotTypes, ShotTypeOK, Places
<1>7. ShotTypes'
    BY <1>2, <1>3, <1>4, <1>5, <1>6 DEF OpenRaw, RawInv, ShotTypes, ShotTypeOK
<1>8. RawIsOwn'
    BY <1>2, <1>3, <1>4, <1>5, <1>6 DEF OpenRaw, RawIsOwn
<1>9. QED
    BY <1>7, <1>8 DEF RawInv

\* KWin's reply comes, and it starts to write the file.
LEMMA RawAccepted == RawInv /\ CaptureWorkspace => RawInv'
<1> SUFFICES ASSUME RawInv, CaptureWorkspace PROVE RawInv'
    OBVIOUS
<1>1. PICK r \in Replies :
        /\ info' = r
        /\ \E size \in {ImageSize(r) % Word, 1} : KWinAccepts(size)
        /\ Goto(IF r.complete /\ Safe(r) THEN "wait" ELSE "helper failed")
    BY DEF CaptureWorkspace
<1>2. PICK size \in {ImageSize(r) % Word, 1} : KWinAccepts(size)
    BY <1>1
<1>3. size \in Nat
    BY <1>2, ReplyNumbers
<1>4. raw \in 1 .. Len(inodes) /\ inodes[raw] = <<>> /\ \A w \in writers : w.inode # raw
    <2>1. capture.pc = "call" /\ Len(inodes) \in Nat
        <3>1. capture.pc = "call"
            BY DEF CaptureWorkspace
        <3>2. QED
            BY <3>1 DEF RawInv, ShotTypes
    <2>2. raw # 0 /\ raw = Len(inodes) /\ inodes[raw] = <<>> /\ \A w \in writers : w.inode # raw
        BY <2>1 DEF RawInv, RawIsOwn
    <2>3. QED
        BY <2>1, <2>2
<1>5. writers' \in SUBSET Writer /\ \A w \in writers' : w.inode \in DOMAIN inodes
    BY <1>2, <1>3, <1>4, AcceptTypes DEF RawInv
<1>6. /\ capture' \in [pc : Places, id : 0 .. MaxCaptures[platform]]
      /\ capture'.pc = IF r.complete /\ Safe(r) THEN "wait" ELSE "helper failed"
      /\ capture'.id = capture.id
    BY <1>1 DEF RawInv, ShotTypes, ShotTypeOK, Places
<1>7. ShotTypes'
    BY <1>1, <1>5, <1>6, ReplyNumbers DEF CaptureWorkspace, RawInv, ShotTypes, ShotTypeOK
<1>8. RawIsOwn'
    <2>1. CASE capture'.pc = "helper failed"
        BY <2>1 DEF RawIsOwn
    <2>2. CASE capture'.pc = "wait"
        <3>1. Safe(info')
            BY <1>1, <1>6, <2>2
        <3>2. size <= ImageSize(info')
            <4>1. ImageSize(info') \in 1 .. MaxImageBytes
                BY <3>1 DEF Safe
            <4>2. ImageSize(info') % Word <= ImageSize(info')
                BY <1>1, ReplyNumbers
            <4>3. size = ImageSize(info') % Word \/ size = 1
                BY <1>1, <1>2
            <4>4. QED
                BY <4>1, <4>2, <4>3, ScreenshotAssumption
        <3>3. raw' # 0 /\ raw' = Len(inodes') /\ inodes'[raw'] = <<>>
            BY <1>4 DEF CaptureWorkspace, RawInv, RawIsOwn
        <3>4. \A w \in writers' : w.inode = raw' =>
                w = [id |-> capture.id, inode |-> raw, at |-> 0, size |-> size]
            BY <1>2, <1>4 DEF CaptureWorkspace, KWinAccepts
        <3>5. QED
            <4>1. Len(inodes'[raw']) = 0
                BY <3>3
            <4>2. \A w \in writers' : w.inode = raw' =>
                    w.id = capture.id /\ w.at = 0 /\ w.size = size
                BY <3>4
            <4>3. \A w \in writers' : w.inode = raw' =>
                    \A v \in writers' : v.inode = raw' => v = w
                BY <3>4
            <4>4. \A n \in 1 .. Len(inodes'[raw']) : inodes'[raw'][n] = capture'.id + 1
                BY <4>1
            <4>5. \A w \in writers' : w.inode = raw' =>
                    /\ w.id = capture'.id /\ w.at = Len(inodes'[raw']) /\ w.at <= w.size
                    /\ w.size <= ImageSize(info')
                <5> SUFFICES ASSUME NEW w \in writers', w.inode = raw'
                             PROVE  /\ w.id = capture'.id /\ w.at = Len(inodes'[raw'])
                                    /\ w.at <= w.size /\ w.size <= ImageSize(info')
                    OBVIOUS
                <5>1. w.id = capture.id /\ w.at = 0 /\ w.size = size
                    BY <4>2
                <5>2. w.id = capture'.id /\ w.at = Len(inodes'[raw'])
                    BY <5>1, <1>6, <4>1
                <5>3. w.at <= w.size
                    BY <5>1, <1>3
                <5>4. w.size <= ImageSize(info')
                    BY <5>1, <3>2
                <5>5. QED
                    BY <5>2, <5>3, <5>4
            <4>6. QED
                BY <2>2, <3>1, <3>3, <4>3, <4>4, <4>5 DEF RawIsOwn
    <2>3. QED
        BY <1>6, <2>1, <2>2
<1>9. QED
    BY <1>7, <1>8 DEF RawInv

\* The reply does not come in time; KWin may have started all the same.
LEMMA RawTimedOut == RawInv /\ CaptureTimesOut => RawInv'
<1> SUFFICES ASSUME RawInv, CaptureTimesOut PROVE RawInv'
    OBVIOUS
<1>1. capture.pc = "call" /\ capture' = [capture EXCEPT !.pc = "helper failed"]
    BY DEF CaptureTimesOut
<1>2. raw \in 1 .. Len(inodes)
    <2>1. raw # 0 /\ raw = Len(inodes)
        BY <1>1 DEF RawInv, RawIsOwn
    <2>2. Len(inodes) \in Nat
        BY DEF RawInv, ShotTypes
    <2>3. QED
        BY <2>1, <2>2
<1>3. writers' \in SUBSET Writer /\ \A w \in writers' : w.inode \in DOMAIN inodes
    <2>1. CASE UNCHANGED writers
        BY <2>1 DEF RawInv, ShotTypes, ShotTypeOK
    <2>2. CASE \E r \in Replies : KWinAccepts(ImageSize(r) % Word)
        BY <1>2, <2>2, ReplyNumbers, AcceptTypes DEF RawInv
    <2>3. QED
        BY <2>1, <2>2 DEF CaptureTimesOut
<1>4. capture' \in [pc : Places, id : 0 .. MaxCaptures[platform]]
    BY <1>1 DEF RawInv, ShotTypes, ShotTypeOK, Places
<1>5. ShotTypes'
    BY <1>3, <1>4 DEF CaptureTimesOut, RawInv, ShotTypes, ShotTypeOK
<1>6. capture'.pc = "helper failed"
    BY <1>1 DEF RawInv, ShotTypes, ShotTypeOK
<1>7. RawIsOwn'
    BY <1>6 DEF RawIsOwn
<1>8. QED
    BY <1>5, <1>7 DEF RawInv

\* Whoever writes, the file of the capture under way holds only its own bytes.
LEMMA RawWritten == RawInv /\ KWinWrites => RawInv'
<1> SUFFICES ASSUME RawInv, KWinWrites PROVE RawInv'
    OBVIOUS
<1> DEFINE Half(w) == w.at + (w.size + 1) \div 2
           Until(w) == IF Half(w) > w.size THEN w.size ELSE Half(w)
           Old(w) == inodes[w.inode]
           Length(w) == IF Until(w) > Len(Old(w)) THEN Until(w) ELSE Len(Old(w))
           Owner(w, n) == IF n \in w.at + 1 .. Until(w) THEN w.id + 1
                          ELSE IF n \in DOMAIN Old(w) THEN Old(w)[n] ELSE 0
<1>1. PICK w \in writers :
        /\ inodes' = [inodes EXCEPT ![w.inode] = [n \in 1 .. Length(w) |-> Owner(w, n)]]
        /\ writers' = (writers \ {w}) \cup
                (IF Until(w) >= w.size THEN {} ELSE {[w EXCEPT !.at = Until(w)]})
        /\ UNCHANGED <<platform, capture, kwin, retryLater, registered, raw, info,
                        spectacle, shot>>
    BY DEF KWinWrites
<1>2. w \in Writer /\ w.inode \in 1 .. Len(inodes) /\ inodes \in Seq(Seq(Nat))
    BY DEF RawInv, ShotTypes, ShotTypeOK
<1>3. Half(w) \in Nat /\ Until(w) \in Nat
    BY <1>2 DEF Writer
<1>4. Old(w) \in Seq(Nat) /\ Len(Old(w)) \in Nat /\ Length(w) \in Nat
    BY <1>2, <1>3
<1>5. \A n \in 1 .. Length(w) : Owner(w, n) \in Nat
    <2> SUFFICES ASSUME NEW n \in 1 .. Length(w) PROVE Owner(w, n) \in Nat
        OBVIOUS
    <2>1. n \in DOMAIN Old(w) => Old(w)[n] \in Nat
        BY <1>4
    <2>2. w.id + 1 \in Nat
        BY <1>2 DEF Writer
    <2>3. QED
        BY <2>1, <2>2
<1> DEFINE new == [n \in 1 .. Length(w) |-> Owner(w, n)]
<1>6. new \in Seq(Nat) /\ Len(new) = Length(w)
    BY <1>4, <1>5
<1>7. /\ inodes' = [inodes EXCEPT ![w.inode] = new]
      /\ inodes' \in Seq(Seq(Nat)) /\ Len(inodes') = Len(inodes)
    BY <1>1, <1>2, <1>6
<1> DEFINE moved == [w EXCEPT !.at = Until(w)]
<1>8. moved \in Writer /\ moved.id = w.id /\ moved.inode = w.inode
        /\ moved.at = Until(w) /\ moved.size = w.size
    BY <1>2, <1>3 DEF Writer
<1>9. writers' \subseteq (writers \ {w}) \cup {moved}
    BY <1>1
<1>10. moved \in writers' => moved \in writers \ {w} \/ Until(w) < w.size
    <2>1. CASE Until(w) >= w.size
        BY <1>1, <2>1
    <2>2. CASE ~(Until(w) >= w.size)
        BY <1>2, <1>3, <2>2 DEF Writer
    <2>3. QED
        BY <2>1, <2>2
<1>11. Until(w) <= w.size /\ (w.at <= w.size => w.at <= Until(w))
    BY <1>2, <1>3 DEF Writer
<1> HIDE DEF new, moved
<1>12. ShotTypes'
    <2>1. writers' \in SUBSET Writer /\ \A v \in writers' : v.inode \in DOMAIN inodes'
        BY <1>2, <1>7, <1>8, <1>9 DEF RawInv, ShotTypes, ShotTypeOK, Writer
    <2>2. QED
        BY <1>1, <1>7, <2>1 DEF RawInv, ShotTypes, ShotTypeOK
<1>13. RawIsOwn'
    <2>1. CASE w.inode # raw
        <3>1. raw \in DOMAIN inodes => inodes'[raw] = inodes[raw]
            BY <1>7, <2>1
        <3>2. raw # 0 => raw \in DOMAIN inodes
            BY <1>2 DEF RawInv, ShotTypes, ShotTypeOK
        <3>3. \A v \in writers' : v.inode = raw => v \in writers
            BY <1>8, <1>9, <2>1
        <3>4. QED
            BY <1>1, <1>7, <3>1, <3>2, <3>3 DEF RawInv, RawIsOwn
    <2>2. CASE w.inode = raw /\ capture.pc \notin {"wait", "save"}
        BY <1>1, <1>7, <2>2 DEF RawInv, RawIsOwn
    <2>3. CASE w.inode = raw /\ capture.pc \in {"wait", "save"}
        <3>1. /\ Safe(info) /\ raw # 0 /\ raw = Len(inodes)
              /\ \A n \in 1 .. Len(inodes[raw]) : inodes[raw][n] = capture.id + 1
              /\ w.id = capture.id /\ w.at = Len(inodes[raw]) /\ w.at <= w.size
              /\ w.size <= ImageSize(info)
              /\ \A v \in writers : v.inode = raw => v = w
              /\ capture.pc = "save" => Len(inodes[raw]) = ImageSize(info)
            BY <2>3 DEF RawInv, RawIsOwn
        <3>2. inodes'[raw] = new
            BY <1>2, <1>7, <2>3
        <3>3. Length(w) = Until(w)
            BY <1>2, <1>3, <1>4, <1>11, <2>3, <3>1 DEF Writer
        <3>4. Len(inodes'[raw]) = Until(w)
            BY <1>6, <3>2, <3>3
        <3>5. \A n \in 1 .. Until(w) : new[n] = capture.id + 1
            <4> SUFFICES ASSUME NEW n \in 1 .. Until(w) PROVE Owner(w, n) = capture.id + 1
                BY <3>3 DEF new
            <4>1. CASE n \in w.at + 1 .. Until(w)
                BY <3>1, <4>1
            <4>2. CASE n \notin w.at + 1 .. Until(w)
                <5>1. n \in 1 .. Len(Old(w))
                    BY <1>2, <1>3, <2>3, <3>1, <4>2 DEF Writer
                <5>2. n \in DOMAIN Old(w) /\ Owner(w, n) = Old(w)[n]
                    BY <1>4, <4>2, <5>1
                <5>3. QED
                    BY <2>3, <3>1, <5>1, <5>2
            <4>3. QED
                BY <4>1, <4>2
        <3>6. \A v \in writers' : v.inode = raw => v = moved
            BY <1>9, <3>1
        <3>7. capture.pc = "save" => Until(w) = ImageSize(info)
            <4>1. /\ w.at \in Nat /\ w.size \in Nat /\ w.at <= Until(w) /\ Until(w) <= w.size
                  /\ w.size <= ImageSize(info)
                BY <1>2, <1>11, <3>1 DEF Writer
            <4>2. capture.pc = "save" => w.at = ImageSize(info)
                BY <3>1
            <4> HIDE DEF Until
            <4>3. QED
                BY <1>3, <4>1, <4>2
        <3>8. QED
            BY <1>1, <1>7, <1>8, <1>11, <2>3, <3>1, <3>2, <3>4, <3>5, <3>6, <3>7
            DEF RawIsOwn
    <2>4. QED
        BY <2>1, <2>2, <2>3
<1>14. QED
    BY <1>12, <1>13 DEF RawInv

\* A step to another place keeps the type of capture and its number.
LEMMA Gone ==
    ASSUME ShotTypeOK, NEW pc \in Places, capture' = [capture EXCEPT !.pc = pc],
           UNCHANGED platform
    PROVE  /\ capture' \in [pc : Places, id : 0 .. MaxCaptures[platform']]
           /\ capture'.pc = pc /\ capture'.id = capture.id
BY DEF ShotTypeOK

\* A place without a raw file, from which the next one is without one too.
LEMMA RawAbsent ==
    ASSUME RawInv, capture.pc \notin {"call", "wait", "save", "helper failed"}
    PROVE  raw = 0
BY DEF RawInv, RawIsOwn

\* The file is complete: from now on nobody writes it any more.
LEMMA RawReported == RawInv /\ HelperReports => RawInv'
<1> SUFFICES ASSUME RawInv, HelperReports PROVE RawInv'
    OBVIOUS
<1>1. capture.pc = "wait" /\ capture' = [capture EXCEPT !.pc = "save"]
    BY DEF HelperReports
<1>2. /\ capture' \in [pc : Places, id : 0 .. MaxCaptures[platform']]
      /\ capture'.pc = "save" /\ capture'.id = capture.id
    BY <1>1, Gone DEF HelperReports, RawInv, ShotTypes, Places
<1>3. ShotTypes'
    BY <1>2 DEF HelperReports, RawInv, ShotTypes, ShotTypeOK
<1>4. RawIsOwn'
    BY <1>1, <1>2 DEF HelperReports, ImageComplete, RawInv, RawIsOwn, Safe, ImageSize
<1>5. QED
    BY <1>3, <1>4 DEF RawInv

\* The picture is made, and the name of the raw file is removed.
LEMMA RawSaved ==
    RawInv /\ SaveImage => RawInv' /\ shot' = IF Probing THEN 0 ELSE capture.id + 1
<1> SUFFICES ASSUME RawInv, SaveImage
             PROVE  RawInv' /\ shot' = IF Probing THEN 0 ELSE capture.id + 1
    OBVIOUS
<1>1. /\ capture.pc = "save" /\ raw # 0 /\ raw = Len(inodes)
      /\ \A n \in 1 .. Len(inodes[raw]) : inodes[raw][n] = capture.id + 1
      /\ Safe(info) /\ Len(inodes[raw]) = ImageSize(info)
    BY DEF RawInv, RawIsOwn, SaveImage
<1>2. inodes[raw] \in Seq(Nat) /\ Len(inodes[raw]) \in Nat \ {0}
    <2>1. inodes \in Seq(Seq(Nat)) /\ raw \in 1 .. Len(inodes)
        BY <1>1 DEF RawInv, ShotTypes, ShotTypeOK
    <2>2. Len(inodes[raw]) >= 1
        BY <1>1, <2>1, ScreenshotAssumption DEF Safe
    <2>3. QED
        BY <2>1, <2>2
<1>3. Shown(inodes[raw]) = capture.id + 1
    <2>1. DOMAIN inodes[raw] = 1 .. Len(inodes[raw]) /\ 1 \in DOMAIN inodes[raw]
        BY <1>2
    <2>2. capture.id \in 0 .. MaxCaptures[platform]
        BY DEF RawInv, ShotTypes, ShotTypeOK
    <2>3. \A n \in DOMAIN inodes[raw] : inodes[raw][n] = capture.id + 1
        BY <1>1, <2>1
    <2>4. QED
        BY <2>1, <2>2, <2>3 DEF Shown
<1>4. shot' = IF Probing THEN 0 ELSE capture.id + 1
    BY <1>3 DEF SaveImage
<1>5. shot' \in 0 .. MaxCaptures[platform'] + 2
    <2>1. capture.id \in 0 .. MaxCaptures[platform] /\ MaxCaptures[platform] \in Nat
        BY ScreenshotAssumption DEF RawInv, ShotTypes, ShotTypeOK
    <2>2. QED
        BY <1>4, <2>1 DEF SaveImage
<1>6. /\ capture' \in [pc : Places, id : 0 .. MaxCaptures[platform']]
      /\ capture'.pc \in {"idle", "ask"}
    BY Gone DEF SaveImage, RawInv, ShotTypes, Places
<1>7. raw' = 0 /\ UNCHANGED <<platform, registered, inodes, writers, info, spectacle>>
    BY DEF SaveImage, UnlinkRaw
<1>8. ShotTypes'
    <2>1. kwin' \in {"unknown", "ready", "failed"} /\ retryLater' \in BOOLEAN
        BY DEF SaveImage
    <2>2. raw' \in 0 .. Len(inodes')
        BY <1>7 DEF RawInv, ShotTypes
    <2>3. QED
        BY <1>5, <1>6, <1>7, <2>1, <2>2 DEF RawInv, ShotTypes, ShotTypeOK
<1>9. RawIsOwn'
    BY <1>6, <1>7 DEF RawIsOwn
<1>10. QED
    BY <1>4, <1>8, <1>9 DEF RawInv

\* The raw file is removed, before the helper is started and when it fails.
LEMMA RawUnlinked == RawInv /\ (StartHelper \/ SaveFails) => RawInv'
<1> SUFFICES ASSUME RawInv, StartHelper \/ SaveFails PROVE RawInv'
    OBVIOUS
<1>1. /\ raw' = 0 /\ UNCHANGED <<platform, kwin, retryLater, registered, inodes, writers,
                                  info, spectacle, shot>>
    BY DEF StartHelper, SaveFails, UnlinkRaw
<1>2. /\ capture' \in [pc : Places, id : 0 .. MaxCaptures[platform']]
      /\ capture'.pc \in {"open", "failed"}
    BY Gone DEF StartHelper, SaveFails, RawInv, ShotTypes, Places
<1>3. ShotTypes'
    BY <1>1, <1>2 DEF RawInv, ShotTypes, ShotTypeOK
<1>4. RawIsOwn'
    BY <1>1, <1>2 DEF RawIsOwn
<1>5. QED
    BY <1>3, <1>4 DEF RawInv


\* The steps of the daemon with no raw file, and those of the desktop.
LEMMA RawUntouched ==
    ASSUME RawInv,
           \/ BeginCapture \/ EnsureHelper \/ EnsureFails \/ HelperFails \/ KWinFails
           \/ RunSpectacle \/ GrabWindows \/ ShotFound \/ CaptureFails \/ Discard
           \/ SpectacleWrites \/ RetryTimePasses
    PROVE  RawInv'
<1> USE DEF RawInv, ShotTypes
<1>1. MaxCaptures[platform] \in Nat /\ capture.id \in 0 .. MaxCaptures[platform]
    BY ScreenshotAssumption DEF ShotTypeOK
<1>2. CASE BeginCapture
    <2>1. /\ capture' \in [pc : Places, id : 0 .. MaxCaptures[platform']]
          /\ capture'.pc \in {"grab", "ensure", "spectacle"}
        BY <1>1, <1>2 DEF BeginCapture, Places
    <2>2. raw = 0
        BY <1>2, RawAbsent DEF BeginCapture
    <2>3. ShotTypeOK'
        BY <1>1, <1>2, <2>1 DEF BeginCapture, Unlink, ShotTypeOK
    <2>4. QED
        BY <1>2, <2>1, <2>2, <2>3, RawElsewhere DEF BeginCapture
<1>3. CASE EnsureHelper \/ EnsureFails
    <2>1. /\ capture' \in [pc : Places, id : 0 .. MaxCaptures[platform']]
          /\ capture'.pc \in {"unlink raw", "failed"}
        BY <1>3, Gone DEF EnsureHelper, EnsureFails, Places
    <2>2. raw = 0
        BY <1>3, RawAbsent DEF EnsureHelper, EnsureFails
    <2>3. registered' \in BOOLEAN
        BY <1>3 DEF EnsureHelper, EnsureFails, ShotTypeOK
    <2>4. ShotTypeOK'
        BY <1>3, <2>1, <2>3 DEF EnsureHelper, EnsureFails, ShotTypeOK
    <2>5. QED
        BY <1>3, <2>1, <2>2, <2>4, RawElsewhere DEF EnsureHelper, EnsureFails
<1>4. CASE HelperFails
    <2>1. /\ capture' \in [pc : Places, id : 0 .. MaxCaptures[platform']]
          /\ capture'.pc = "helper failed"
        BY <1>4, Gone DEF HelperFails, Places
    <2>2. ShotTypeOK'
        BY <1>4, <2>1 DEF HelperFails, ShotTypeOK
    <2>3. QED
        BY <1>4, <2>1, <2>2, RawElsewhere DEF HelperFails
<1>5. CASE KWinFails
    <2>1. /\ capture' \in [pc : Places, id : 0 .. MaxCaptures[platform']]
          /\ capture'.pc \in {"idle", "spectacle"}
        BY <1>5, Gone DEF KWinFails, Places
    <2>2. raw = 0
        BY <1>5, RawAbsent DEF KWinFails
    <2>3. ShotTypeOK'
        BY <1>1, <1>5, <2>1 DEF KWinFails, ShotTypeOK
    <2>4. QED
        BY <1>5, <2>1, <2>2, <2>3, RawElsewhere DEF KWinFails
<1>6. CASE RunSpectacle \/ GrabWindows \/ ShotFound \/ CaptureFails
    <2>1. /\ capture' \in [pc : Places, id : 0 .. MaxCaptures[platform']]
          /\ capture'.pc \in {"await", "ask", "error"}
        BY <1>6, Gone DEF RunSpectacle, GrabWindows, ShotFound, CaptureFails, Places
    <2>2. raw = 0
        BY <1>6, RawAbsent DEF RunSpectacle, GrabWindows, ShotFound, CaptureFails
    <2>3. /\ shot' \in 0 .. MaxCaptures[platform'] + 2
          /\ spectacle' \in 0 .. MaxCaptures[platform']
        BY <1>1, <1>6 DEF RunSpectacle, GrabWindows, ShotFound, CaptureFails, ShotTypeOK
    <2>4. ShotTypeOK'
        BY <1>6, <2>1, <2>3
        DEF RunSpectacle, GrabWindows, ShotFound, CaptureFails, ShotTypeOK
    <2>5. QED
        BY <1>6, <2>1, <2>2, <2>4, RawElsewhere
        DEF RunSpectacle, GrabWindows, ShotFound, CaptureFails
<1>7. CASE Discard
    <2>1. /\ capture' \in [pc : Places, id : 0 .. MaxCaptures[platform']]
          /\ capture'.pc = "idle"
        BY <1>7, Gone DEF Discard, Places
    <2>2. raw = 0
        BY <1>7, RawAbsent DEF Discard
    <2>3. ShotTypeOK'
        BY <1>1, <1>7, <2>1 DEF Discard, Unlink, ShotTypeOK
    <2>4. QED
        BY <1>7, <2>1, <2>2, <2>3, RawElsewhere DEF Discard
<1>8. CASE SpectacleWrites
    <2>1. shot' \in 0 .. MaxCaptures[platform'] + 2
        BY <1>1, <1>8 DEF SpectacleWrites, ShotTypeOK
    <2>2. ShotTypeOK'
        BY <1>1, <1>8, <2>1 DEF SpectacleWrites, ShotTypeOK
    <2>3. QED
        BY <1>8, <2>2, RawElsewhere DEF SpectacleWrites
<1>9. CASE RetryTimePasses
    <2>1. ShotTypeOK'
        BY <1>9 DEF RetryTimePasses, ShotTypeOK
    <2>2. QED
        BY <1>9, <2>1, RawElsewhere DEF RetryTimePasses
<1>10. QED
    BY <1>2, <1>3, <1>4, <1>5, <1>6, <1>7, <1>8, <1>9

\* Every step of the screenshot keeps the invariant of the raw file.
LEMMA RawStep == RawInv /\ [ShotNext]_shotVars => RawInv'
<1> SUFFICES ASSUME RawInv, [ShotNext]_shotVars PROVE RawInv'
    OBVIOUS
<1>1. CASE UNCHANGED shotVars
    BY <1>1, RawElsewhere DEF shotVars, RawInv, ShotTypes, ShotTypeOK
<1>2. CASE ShotNext
    BY <1>2, RawUntouched, RawOpened, RawAccepted, RawTimedOut, RawWritten, RawReported,
       RawSaved, RawUnlinked
    DEF ShotNext, DaemonCaptures
<1>3. QED
    BY <1>1, <1>2

---------------------------------------------------------------------------
(***************************************************************************)
(* The picture.  What is proved of it needs that Spectacle does not write   *)
(* when nobody waits for it any more.                                      *)
(***************************************************************************)
ShotInv == RawInv /\ ShotIsOwn

\* There is no picture at the start.
LEMMA ShotInitOwn == ShotInit => ShotInv
<1>1. ASSUME ShotInit PROVE ShotIsOwn
    BY <1>1 DEF ShotInit, ShotIsOwn
<1>2. QED
    BY <1>1, RawInit DEF ShotInv

\* A picture there is was made in the capture under way.
LEMMA ShotStep == ASSUME ~LateSpectacle PROVE ShotInv /\ [ShotNext]_shotVars => ShotInv'
<1> SUFFICES ASSUME ShotInv, [ShotNext]_shotVars PROVE ShotIsOwn'
    BY RawStep DEF ShotInv
<1>1. ShotTypeOK /\ ShotIsOwn /\ RawInv
    BY DEF ShotInv, RawInv, ShotTypes
<1>2. CASE UNCHANGED shotVars
    BY <1>1, <1>2 DEF shotVars, ShotIsOwn
<1>3. CASE BeginCapture
    BY <1>1, <1>3 DEF BeginCapture, Unlink, ShotIsOwn
<1>4. CASE \/ EnsureHelper \/ EnsureFails \/ StartHelper \/ OpenRaw \/ CaptureWorkspace
           \/ CaptureTimesOut \/ HelperReports \/ HelperFails \/ SaveFails
    <2>1. /\ capture.pc \notin {"await", "ask"} /\ capture'.pc \notin {"await", "ask"}
          /\ UNCHANGED <<shot, spectacle>>
        BY <1>1, <1>4
        DEF EnsureHelper, EnsureFails, StartHelper, OpenRaw, CaptureWorkspace,
            CaptureTimesOut, HelperReports, HelperFails, SaveFails, ShotTypeOK
    <2>2. QED
        BY <1>1, <2>1 DEF ShotIsOwn
<1>5. CASE SaveImage
    <2>1. shot' = IF Probing THEN 0 ELSE capture.id + 1
        BY <1>1, <1>5, RawSaved
    <2>2. capture.id + 1 # 0
        BY <1>1, ScreenshotAssumption DEF ShotTypeOK
    <2>3. spectacle' = 0
        BY <1>1, <1>5 DEF SaveImage, ShotIsOwn
    <2>4. capture'.pc = (IF Probing THEN "idle" ELSE "ask") /\ capture'.id = capture.id
        BY <1>1, <1>5 DEF SaveImage, ShotTypeOK
    <2>5. QED
        BY <2>1, <2>2, <2>3, <2>4 DEF ShotIsOwn
<1>6. CASE KWinFails
    BY <1>1, <1>6 DEF KWinFails, ShotIsOwn, ShotTypeOK
<1>7. CASE RunSpectacle \/ GrabWindows
    BY <1>1, <1>7 DEF RunSpectacle, GrabWindows, ShotIsOwn, ShotTypeOK
<1>8. CASE CaptureFails
    BY <1>1, <1>8 DEF CaptureFails, ShotIsOwn, ShotTypeOK
<1>9. CASE ShotFound
    <2>1. /\ capture.pc = "await" /\ shot # 0 /\ shot' = shot /\ spectacle' = spectacle
          /\ capture'.pc = "ask" /\ capture'.id = capture.id
        BY <1>1, <1>9, Gone DEF ShotFound, ShotTypeOK, Places
    <2>2. QED
        BY <1>1, <2>1 DEF ShotIsOwn
<1>10. CASE Discard
    BY <1>1, <1>10 DEF Discard, Unlink, ShotIsOwn, ShotTypeOK
<1>11. CASE SpectacleWrites
    BY <1>1, <1>11 DEF SpectacleWrites, ShotIsOwn, ShotTypeOK
<1>12. CASE KWinWrites \/ RetryTimePasses
    BY <1>1, <1>12 DEF KWinWrites, RetryTimePasses, ShotIsOwn, ShotTypeOK
<1>13. QED
    BY <1>2, <1>3, <1>4, <1>5, <1>6, <1>7, <1>8, <1>9, <1>10, <1>11, <1>12
    DEF ShotNext, DaemonCaptures

---------------------------------------------------------------------------
(***************************************************************************)
(* The exchange                                                            *)
(***************************************************************************)
\* Every step of the exchange is a step of the screenshot, or leaves it alone.
LEMMA ExchangeStep == [Next]_vars => [ShotNext]_shotVars
<1> SUFFICES ASSUME [Next]_vars PROVE [ShotNext]_shotVars
    OBVIOUS
<1>1. CASE Take
    BY <1>1 DEF Take, ShotNext
<1>2. CASE EndCapture
    BY <1>2 DEF EndCapture, ShotNext
<1>3. CASE TakePicture \/ Desktop
    BY <1>3 DEF TakePicture, Desktop, ShotNext
<1>4. CASE Sample \/ Ask \/ Show \/ Read \/ Tick \/ AskClaude \/ ClaudeAnswers \/ NoPicture
           \/ Publish
    BY <1>4 DEF Sample, Ask, Show, Read, Tick, AskClaude, ClaudeAnswers, NoPicture, Publish
<1>5. CASE UNCHANGED vars
    BY <1>5 DEF vars
<1>6. QED
    BY <1>1, <1>2, <1>3, <1>4, <1>5 DEF Next

\* The invariant of the raw file, in the exchange.
LEMMA RawAlways == Spec => []RawInv
<1>1. Init => RawInv
    BY RawInit DEF Init
<1>2. RawInv /\ [Next]_vars => RawInv'
    BY RawStep, ExchangeStep
<1>3. QED
    BY <1>1, <1>2, PTL DEF Spec

\* The invariant of the picture, in the exchange.
LEMMA ShotAlways == ASSUME ~LateSpectacle PROVE Spec => []ShotInv
<1>1. Init => ShotInv
    BY ShotInitOwn DEF Init
<1>2. ShotInv /\ [Next]_vars => ShotInv'
    BY ShotStep, ExchangeStep
<1>3. QED
    BY <1>1, <1>2, PTL DEF Spec

\* What the helper reports the daemon accepts, for every reply KWin may give:
\* the size each computes, in the helper's 64 bits and in Python, is the same,
\* and no writer can add to the file or change it once it has this size.
THEOREM ReportsAreAccepted == Spec => []HelperReportIsAccepted
<1>1. RawInv => HelperReportIsAccepted
    BY DEF RawInv, RawIsOwn, HelperReportIsAccepted, Safe, Validate, ImageSize
<1>2. QED
    BY <1>1, RawAlways, PTL

\* What Claude is shown is a whole picture of this capture, however often a
\* capture was given up before and whatever KWin still writes for it.
THEOREM ShotIsCurrent == ASSUME ~LateSpectacle PROVE Spec => []ShotIsOfThisQuestion
<1>1. ShotInv => ShotIsOfThisQuestion
    BY DEF ShotInv, ShotIsOwn, ShotIsOfThisQuestion
<1>2. QED
    BY <1>1, ShotAlways, PTL

\* Between two questions there is neither a picture nor a raw file.
THEOREM NothingIsLeft == ASSUME ~LateSpectacle PROVE Spec => []NothingLeftBehind
<1>1. ShotInv => NothingLeftBehind
    BY DEF ShotInv, RawInv, RawIsOwn, ShotIsOwn, NothingLeftBehind
<1>2. QED
    BY <1>1, ShotAlways, PTL

\* What the type invariant says of the exchange besides the screenshot.
States == {"none", "sent", "ignored", "taken", "asked", "answered", "published", "shown",
           "lost"}
ExchangeTypes ==
    /\ now \in 0 .. MaxNow
    /\ published # Null => published.world \in Worlds[platform] /\ published.at \in 0 .. now
    /\ "state" \in DOMAIN request /\ request.state \in States
    /\ prompt.shot \in 0 .. MaxCaptures[platform] + 2
ExchangeInv == RawInv /\ ExchangeTypes

\* The daemon stays on its platform.
LEMMA PlatformStays == [Next]_vars => platform' = platform
<1>1. [ShotNext]_shotVars => platform' = platform
    BY DEF ShotNext, DaemonCaptures, shotVars, BeginCapture, EnsureHelper, EnsureFails,
        StartHelper, OpenRaw, CaptureWorkspace, CaptureTimesOut, HelperReports, HelperFails,
        SaveImage, SaveFails, KWinFails, RunSpectacle, GrabWindows, ShotFound, CaptureFails,
        Discard, KWinWrites, SpectacleWrites, RetryTimePasses
<1>2. QED
    BY <1>1, ExchangeStep

\* The exchange starts in a state of its types.
LEMMA ExchangeInit == Init => ExchangeInv
<1> SUFFICES ASSUME Init PROVE ExchangeInv
    OBVIOUS
<1>1. RawInv
    BY RawInit DEF Init
<1>2. MaxCaptures[platform] \in Nat
    BY <1>1, ScreenshotAssumption DEF RawInv, ShotTypes, ShotTypeOK
<1>3. NoPrompt.shot = 0 /\ "state" \in DOMAIN NoRequest /\ NoRequest.state = "none"
    BY DEF NoPrompt, NoRequest
<1>4. ExchangeTypes
    BY <1>2, <1>3, PromptAssumption DEF Init, ExchangeTypes, States
<1>5. QED
    BY <1>1, <1>4 DEF ExchangeInv

\* Every step of the exchange keeps its types.
LEMMA ExchangeStays == ExchangeInv /\ [Next]_vars => ExchangeInv'
<1> SUFFICES ASSUME ExchangeInv, [Next]_vars PROVE ExchangeTypes'
    BY RawStep, ExchangeStep DEF ExchangeInv
<1>1. ExchangeTypes /\ platform' = platform
    BY PlatformStays DEF ExchangeInv
<1>2. MaxCaptures[platform] \in Nat /\ shot \in 0 .. MaxCaptures[platform] + 2
    BY ScreenshotAssumption DEF ExchangeInv, RawInv, ShotTypes, ShotTypeOK
<1>3. CASE Sample
    <2>1. PICK w \in Worlds[platform] :
            published' = [world |-> w, doc |-> Capture(w), at |-> now]
        BY <1>3 DEF Sample
    <2>2. published'.world = w /\ published'.at = now
        BY <2>1
    <2>3. QED
        BY <1>1, <1>3, <2>2 DEF Sample, ExchangeTypes
<1>4. CASE Ask
    <2>1. "state" \in DOMAIN request' /\ request'.state = "sent"
        BY <1>4 DEF Ask, NoRequest
    <2>2. QED
        BY <1>1, <1>4, <2>1 DEF Ask, ExchangeTypes, States
<1>5. CASE Show
    <2>1. "state" \in DOMAIN request' /\ request'.state \in {"lost", "shown"}
        BY <1>1, <1>5 DEF Show, Advance, ExchangeTypes
    <2>2. QED
        BY <1>1, <1>5, <2>1 DEF Show, ExchangeTypes, States
<1>6. CASE Read
    <2>1. NoPrompt.shot = 0 /\ "state" \in DOMAIN NoRequest /\ NoRequest.state = "none"
        BY DEF NoPrompt, NoRequest
    <2>2. QED
        BY <1>1, <1>2, <1>6, <2>1 DEF Read, ExchangeTypes, States
<1>7. CASE Tick
    BY <1>1, <1>7, PromptAssumption DEF Tick, ExchangeTypes
<1>8. CASE Take
    <2>1. "state" \in DOMAIN request' /\ request'.state \in {"ignored", "taken"}
        BY <1>1, <1>8 DEF Take, Advance, ExchangeTypes
    <2>2. QED
        BY <1>1, <1>8, <2>1 DEF Take, ExchangeTypes, States
<1>9. CASE AskClaude
    <2>1. prompt'.shot = shot
        BY <1>9 DEF AskClaude
    <2>2. "state" \in DOMAIN request' /\ request'.state = "asked"
        BY <1>1, <1>9 DEF AskClaude, Advance, ExchangeTypes
    <2>3. QED
        BY <1>1, <1>2, <1>9, <2>1, <2>2 DEF AskClaude, ExchangeTypes, States
<1>10. CASE ClaudeAnswers \/ NoPicture
    <2>1. "state" \in DOMAIN request' /\ request'.state = "answered"
        BY <1>1, <1>10 DEF ClaudeAnswers, NoPicture, Pending, ExchangeTypes
    <2>2. QED
        BY <1>1, <1>10, <2>1 DEF ClaudeAnswers, NoPicture, ExchangeTypes, States
<1>11. CASE Publish
    <2>1. "state" \in DOMAIN request' /\ request'.state = "published"
        BY <1>1, <1>11 DEF Publish, Advance, ExchangeTypes
    <2>2. QED
        BY <1>1, <1>11, <2>1 DEF Publish, ExchangeTypes, States
<1>12. CASE EndCapture \/ TakePicture \/ Desktop
    BY <1>1, <1>12 DEF EndCapture, TakePicture, Desktop, ExchangeTypes
<1>13. CASE UNCHANGED vars
    BY <1>1, <1>13 DEF vars, ExchangeTypes
<1>14. QED
    BY <1>3, <1>4, <1>5, <1>6, <1>7, <1>8, <1>9, <1>10, <1>11, <1>12, <1>13 DEF Next

\* The variables of the screenshot and of the exchange have their types.
THEOREM PromptTypes == Spec => []TypeOK
<1>1. Init => ExchangeInv
    BY ExchangeInit
<1>2. ExchangeInv /\ [Next]_vars => ExchangeInv'
    BY ExchangeStays
<1>3. ExchangeInv => TypeOK
    BY DEF ExchangeInv, RawInv, ShotTypes, ExchangeTypes, States, TypeOK
<1>4. QED
    BY <1>1, <1>2, <1>3, PTL DEF Spec

---------------------------------------------------------------------------
(***************************************************************************)
(* The text of a request                                                   *)
(***************************************************************************)
Adding == INSTANCE Folding WITH op <- AddToken

\* The split of a text is a fold.
LEMMA AddingIsFold == ASSUME NEW b, NEW text PROVE FoldLeft(AddToken, b, text) = Adding!Fold(b, text)
BY DEF Adding!Fold, FoldLeft, Adding!FoldLeft, MapThenFoldSet, Adding!MapThenFoldSet, Max, Adding!Max

\* One token more of the last line.
LEMMA TokenAdded ==
    ASSUME NEW T, NEW done \in Seq(Seq(T)), NEW part \in Seq(T), NEW c \in T
    PROVE  /\ c = "\n" => AddToken(Append(done, part), c) = Append(Append(done, part), <<>>)
           /\ c # "\n" => AddToken(Append(done, part), c) = Append(done, Append(part, c))
<1> DEFINE S == Seq(T)
<1>1. done \in Seq(S) /\ part \in S
  OBVIOUS
<1> HIDE DEF S
<1>2. Front(Append(done, part)) = done /\ Last(Append(done, part)) = part
  BY <1>1 DEF Front, Last
<1> QED BY <1>2 DEF AddToken

\* A text within a line.
NoBreak(a) == \A i \in 1 .. Len(a) : a[i] # "\n"

\* A text without line breaks stays in the last line.
LEMMA LineAdded ==
    ASSUME NEW T, NEW done \in Seq(Seq(T)), NEW part \in Seq(T),
           NEW a \in Seq(T), NoBreak(a)
    PROVE  Adding!Fold(Append(done, part), a) = Append(done, part \o a)
<1> DEFINE n == Len(a)
           R == [k \in 0 .. n |-> {Append(done, part \o SubSeq(a, 1, k))}]
           start == Append(done, part)
<1>1. n \in Nat /\ DOMAIN a = 1 .. n /\ \A k \in 1 .. n : a[k] \in T
  OBVIOUS
<1>2. start \in R[0]
  <2>1. SubSeq(a, 1, 0) = <<>> /\ 0 \in 0 .. n
    BY <1>1
  <2>2. part \o <<>> = part
    OBVIOUS
  <2>3. R[0] = {Append(done, part \o SubSeq(a, 1, 0))}
    BY <2>1
  <2> HIDE DEF R
  <2> QED BY <2>1, <2>2, <2>3
<1> HIDE DEF R, n
<1>3. ASSUME NEW k \in 1 .. n, NEW acc \in R[k - 1] PROVE AddToken(acc, a[k]) \in R[k]
  <2> DEFINE t == SubSeq(a, 1, k - 1)
             x == a[k]
             p == part \o t
  <2>1. k - 1 \in 0 .. n /\ k \in 0 .. n /\ (k - 1) + 1 = k /\ k - 1 \in Nat /\ k - 1 < n /\ k - 1 <= n
    BY <1>1
  <2>2. acc = Append(done, p)
    BY <2>1 DEF R
  <2>3. x \in T /\ SubSeq(a, 1, k) = Append(t, x)
    BY <1>1, <2>1, OneMore DEF n
  <2> DEFINE ends == x = "\n"
  <2>8. ~ends
    BY DEF NoBreak, n
  <2>4. t \in Seq(T)
    BY <2>1, FirstPart DEF n
  <2> HIDE DEF t, x, ends
  <2>5. p \in Seq(T) /\ Append(p, x) = part \o SubSeq(a, 1, k)
    <3>1. x \in T
      BY <2>3
    <3>2. p \in Seq(T)
      BY <2>4
    <3>3. Append(Cat(part, t), x) = Cat(part, Append(t, x))
      BY <2>4, <3>1, CatAppend
    <3>4. Cat(part, t) = p /\ Cat(part, Append(t, x)) = part \o Append(t, x)
      BY DEF Cat
    <3> HIDE DEF p
    <3> QED BY <2>3, <3>2, <3>3, <3>4
  <2> HIDE DEF p
  <2>6. AddToken(Append(done, p), x) = Append(done, Append(p, x))
    <3>1. x \in T /\ p \in Seq(T)
      BY <2>3, <2>5
    <3> QED BY <2>8, <3>1, TokenAdded DEF ends
  <2>7. AddToken(acc, x) \in R[k]
    BY <2>1, <2>2, <2>3, <2>5, <2>6 DEF R
  <2> QED BY <2>7 DEF x
<1> HIDE DEF R
<1>4. Adding!Fold(start, a) \in R[n]
  BY <1>1, <1>2, <1>3, Adding!FoldKeeps
<1>5. SubSeq(a, 1, n) = a /\ n \in 0 .. n
  BY <1>1 DEF n
<1> QED BY <1>4, <1>5 DEF R

\* A line with its break.
LEMMA LineEnds ==
    ASSUME NEW T, "\n" \in T, NEW done \in Seq(Seq(T)),
           NEW a \in Seq(T), NoBreak(a)
    PROVE  Adding!Fold(Append(done, <<>>), a \o <<"\n">>) = Append(Append(done, a), <<>>)
<1> DEFINE start == Append(done, <<>>)
           break == <<"\n">>
<1>1. break \in Seq(T) /\ <<>> \in Seq(T) /\ <<>> \o a = a
  OBVIOUS
<1>2. Adding!Fold(start, a) = Append(done, a)
  <2> DEFINE part == <<>>
  <2>1. part \in Seq(T) /\ part \o a = a
    BY <1>1
  <2> HIDE DEF part
  <2>2. Adding!Fold(Append(done, part), a) = Append(done, part \o a)
    BY <2>1, LineAdded
  <2> QED BY <2>1, <2>2 DEF part
<1>3. Adding!Fold(Append(done, a), break) = Append(Append(done, a), <<>>)
  BY TokenAdded, Adding!FoldOne
<1> HIDE DEF start, break
<1>4. Adding!Fold(start, a \o break) = Adding!Fold(Adding!Fold(start, a), break)
  BY <1>1, Adding!FoldConcat
<1> QED BY <1>2, <1>3, <1>4 DEF start, break

\* A line of a file, without its break.
IsLine(a) == NoBreak(a) /\ Chomp(a) = a

\* A text that is written line by line.
Broken(lines) == [i \in DOMAIN lines |-> lines[i] \o <<"\n">>]
Written(lines) == FlattenSeq(Broken(lines))

\* A list with one more element after it.
LEMMA AppendParts ==
    ASSUME NEW S, NEW s \in Seq(S), NEW x \in S
    PROVE  /\ Append(s, x) \in Seq(S) /\ Append(s, x) # <<>>
           /\ Len(Append(s, x)) = Len(s) + 1 /\ Len(s) \in Nat
           /\ Append(s, x)[Len(s) + 1] = x
           /\ \A i \in 1 .. Len(s) : Append(s, x)[i] = s[i]
OBVIOUS

\* One line more.
LEMMA WrittenAppend ==
    ASSUME NEW T, "\n" \in T, NEW lines \in Seq(Seq(T)), NEW a \in Seq(T)
    PROVE  /\ Written(lines) \in Seq(T)
           /\ Written(Append(lines, a)) = Written(lines) \o (a \o <<"\n">>)
<1> DEFINE S == Seq(T)
           u == Append(lines, a)
           n == Len(lines)
           last == a \o <<"\n">>
           some == [i \in 1 .. n |-> lines[i] \o <<"\n">>]
           all == [i \in 1 .. n + 1 |-> u[i] \o <<"\n">>]
<1>1. /\ n \in Nat /\ DOMAIN lines = 1 .. n /\ DOMAIN u = 1 .. n + 1 /\ u[n + 1] = a
      /\ \A i \in 1 .. n : u[i] = lines[i] /\ lines[i] \in S
  OBVIOUS
<1>2. last \in S /\ \A x \in S : x \o <<"\n">> \in S
  OBVIOUS
<1>3. some = Broken(lines) /\ all = Broken(u)
  BY <1>1 DEF Broken
<1> HIDE DEF S, u, n
<1>4. some \in Seq(S)
  BY <1>1, <1>2
<1>5. all = Append(some, last)
  <2> DEFINE v == Append(some, last)
  <2>1. Len(some) = n /\ n \in Nat
    BY <1>1, <1>4 DEF some
  <2>2. ASSUME NEW i \in 1 .. n + 1 PROVE all[i] = IF i = n + 1 THEN last ELSE some[i]
    <3>1. all[i] = u[i] \o <<"\n">>
      OBVIOUS
    <3>2. i = n + 1 => u[i] = a
      BY <1>1
    <3>3. i # n + 1 => i \in 1 .. n /\ u[i] = lines[i]
      BY <1>1
    <3>4. i \in 1 .. n => some[i] = lines[i] \o <<"\n">>
      OBVIOUS
    <3> HIDE DEF all, some
    <3> QED BY <3>1, <3>2, <3>3, <3>4
  <2>3. v \in Seq(S) /\ Len(v) = n + 1 /\ \A i \in 1 .. n + 1 :
            v[i] = IF i = n + 1 THEN last ELSE some[i]
    <3> HIDE DEF some, last, v
    <3>1. some \in Seq(S) /\ last \in S
      BY <1>2, <1>4
    <3>2. v \in Seq(S) /\ Len(v) = Len(some) + 1 /\ v[Len(some) + 1] = last
      BY <3>1, AppendParts DEF v
    <3>3. \A i \in 1 .. Len(some) : v[i] = some[i]
      BY <3>1, AppendParts DEF v
    <3> QED BY <2>1, <3>2, <3>3
  <2>4. v = [i \in 1 .. n + 1 |-> v[i]]
    <3> HIDE DEF v
    <3> QED BY <2>3
  <2> HIDE DEF v
  <2>5. all = [i \in 1 .. n + 1 |-> all[i]]
    OBVIOUS
  <2> HIDE DEF some, last, all
  <2> QED BY <2>2, <2>3, <2>4, <2>5 DEF v
<1> HIDE DEF some, all, last
<1>6. FlattenSeq(all) = FlattenSeq(some) \o last
  BY <1>2, <1>4, <1>5, FlattenAppend DEF S
<1>7. FlattenSeq(some) \in Seq(T)
  BY <1>4, FlattenType DEF S
<1> QED BY <1>3, <1>6, <1>7 DEF Written, last, u

\* What is written line by line is split at the same places ...
LEMMA WrittenSplit ==
    ASSUME NEW T, "\n" \in T, NEW lines \in Seq(Seq(T)),
           \A k \in 1 .. Len(lines) : NoBreak(lines[k])
    PROVE  Adding!Fold(<<<<>>>>, Written(lines)) = Append(lines, <<>>)
<1> DEFINE S == {a \in Seq(T) : NoBreak(a)}
           G == {l \in Seq(S) : Adding!Fold(<<<<>>>>, Written(l)) = Append(l, <<>>)}
<1>1. <<>> \in G
  <2>1. Written(<<>>) = <<>>
    <3>1. Broken(<<>>) = <<>>
      BY DEF Broken
    <3> QED BY <3>1, FlattenEmpty DEF Written
  <2>2. Append(<<>>, <<>>) = <<<<>>>> /\ <<>> \in Seq(S)
    OBVIOUS
  <2> QED BY <2>1, <2>2, Adding!FoldEmpty
<1>2. ASSUME NEW l \in Seq(S), l \in G, NEW a \in S PROVE Append(l, a) \in G
  <2> DEFINE text == Written(l)
             line == a \o <<"\n">>
             start == <<<<>>>>
  <2>1. l \in Seq(Seq(T)) /\ a \in Seq(T) /\ line \in Seq(T) /\ NoBreak(a)
    OBVIOUS
  <2>2. Adding!Fold(start, text) = Append(l, <<>>)
    BY <1>2
  <2>3. text \in Seq(T) /\ Written(Append(l, a)) = text \o line
    BY <2>1, WrittenAppend
  <2>4. Append(l, a) \in Seq(S)
    OBVIOUS
  <2>5. Adding!Fold(Append(l, <<>>), line) = Append(Append(l, a), <<>>)
    BY <2>1, LineEnds
  <2> HIDE DEF text, line, start
  <2>6. Adding!Fold(start, text \o line) = Adding!Fold(Adding!Fold(start, text), line)
    BY <2>1, <2>3, Adding!FoldConcat
  <2> QED BY <2>2, <2>3, <2>4, <2>5, <2>6 DEF start
<1>3. lines \in Seq(S)
  <2>1. \A k \in 1 .. Len(lines) : lines[k] \in S
    OBVIOUS
  <2>2. lines = [k \in 1 .. Len(lines) |-> lines[k]] /\ Len(lines) \in Nat
    OBVIOUS
  <2> HIDE DEF S
  <2> QED BY <2>1, <2>2
<1> HIDE DEF S, G
<1>4. lines \in G
  BY <1>1, <1>2, <1>3, ListInduction
<1> QED BY <1>4 DEF G

\* Without a carriage return at the end of a line.
Chomped(lines) == [i \in DOMAIN lines |-> Chomp(lines[i])]

\* ... and read line by line.
LEMMA WrittenLines ==
    ASSUME NEW T, "\n" \in T, NEW lines \in Seq(Seq(T)),
           \A k \in 1 .. Len(lines) : NoBreak(lines[k])
    PROVE  Lines(Written(lines)) = Chomped(lines)
<1> DEFINE split == FoldLeft(AddToken, <<<<>>>>, Written(lines))
           S == Seq(T)
<1>1. split = Append(lines, <<>>)
  BY WrittenSplit, AddingIsFold
<1>2. lines \in Seq(S) /\ <<>> \in S
  OBVIOUS
<1> HIDE DEF split, S
<1>3. Last(split) = <<>> /\ Front(split) = lines
  BY <1>1, <1>2 DEF Last, Front
<1> QED BY <1>3 DEF Lines, split, Chomped

\* The last line may lack its break.
LEMMA UnendedLines ==
    ASSUME NEW T, "\n" \in T, NEW lines \in Seq(Seq(T)), NEW a \in Seq(T), a # <<>>,
           \A k \in 1 .. Len(lines) : NoBreak(lines[k]), NoBreak(a)
    PROVE  Lines(Written(lines) \o a) = Chomped(Append(lines, a))
<1> DEFINE text == Written(lines)
           split == FoldLeft(AddToken, <<<<>>>>, text \o a)
           start == <<<<>>>>
           S == Seq(T)
           all == Append(lines, a)
<1>1. text \in Seq(T)
  BY WrittenAppend
<1>2. Adding!Fold(start, text) = Append(lines, <<>>)
  BY WrittenSplit
<1>3. Adding!Fold(Append(lines, <<>>), a) = all
  <2> DEFINE part == <<>>
  <2>1. part \in Seq(T) /\ part \o a = a /\ NoBreak(a)
    OBVIOUS
  <2> HIDE DEF part
  <2>2. Adding!Fold(Append(lines, part), a) = Append(lines, part \o a)
    BY <2>1, LineAdded
  <2> QED BY <2>1, <2>2 DEF part
<1> HIDE DEF text, start
<1>4. split = all
  <2>1. Adding!Fold(start, text \o a) = Adding!Fold(Adding!Fold(start, text), a)
    BY <1>1, Adding!FoldConcat
  <2>2. split = Adding!Fold(start, text \o a)
    BY AddingIsFold DEF start
  <2> QED BY <1>2, <1>3, <2>1, <2>2
<1>5. lines \in Seq(S) /\ a \in S
  OBVIOUS
<1> HIDE DEF S
<1>6. Last(all) = a
  BY <1>5 DEF Last
<1> HIDE DEF all
<1> QED BY <1>4, <1>6 DEF Lines, Chomped, split, text, all

\* Lines that end with none stay.
LEMMA LinesChomped ==
    ASSUME NEW S, NEW lines \in Seq(S), \A k \in 1 .. Len(lines) : IsLine(lines[k])
    PROVE  Chomped(lines) = lines
<1>1. DOMAIN lines = 1 .. Len(lines) /\ lines = [i \in DOMAIN lines |-> lines[i]]
  OBVIOUS
<1>2. \A i \in DOMAIN lines : Chomp(lines[i]) = lines[i]
  BY <1>1 DEF IsLine
<1> QED BY <1>1, <1>2 DEF Chomped

\* Lines that end with none are read as they were written, the last one with its
\* break ...
LEMMA WrittenRead ==
    ASSUME NEW T, "\n" \in T, NEW lines \in Seq(Seq(T)),
           \A k \in 1 .. Len(lines) : IsLine(lines[k])
    PROVE  Lines(Written(lines)) = lines
<1>1. \A k \in 1 .. Len(lines) : NoBreak(lines[k])
  BY DEF IsLine
<1>2. Lines(Written(lines)) = Chomped(lines)
  BY <1>1, WrittenLines
<1>3. Chomped(lines) = lines
  BY LinesChomped
<1> QED BY <1>2, <1>3

\* ... or without.
LEMMA UnendedRead ==
    ASSUME NEW T, "\n" \in T, NEW lines \in Seq(Seq(T)), NEW a \in Seq(T), a # <<>>,
           \A k \in 1 .. Len(lines) : IsLine(lines[k]), IsLine(a)
    PROVE  Lines(Written(lines) \o a) = Append(lines, a)
<1> DEFINE all == Append(lines, a)
           S == Seq(T)
<1>1. (\A k \in 1 .. Len(lines) : NoBreak(lines[k])) /\ NoBreak(a)
  BY DEF IsLine
<1>2. Lines(Written(lines) \o a) = Chomped(all)
  BY <1>1, UnendedLines
<1>3. all \in Seq(S) /\ \A k \in 1 .. Len(all) : IsLine(all[k])
  <2>1. lines \in Seq(S) /\ a \in S
    OBVIOUS
  <2> HIDE DEF S
  <2>2. Len(all) = Len(lines) + 1 /\ all[Len(lines) + 1] = a /\ all \in Seq(S)
        /\ (\A k \in 1 .. Len(lines) : all[k] = lines[k]) /\ Len(lines) \in Nat
    BY <2>1
  <2> HIDE DEF all
  <2>3. \A k \in 1 .. Len(all) : k \in 1 .. Len(lines) \/ k = Len(lines) + 1
    BY <2>2
  <2> QED BY <2>2, <2>3
<1> HIDE DEF all, S
<1>4. Chomped(all) = all
  BY <1>3, LinesChomped
<1> QED BY <1>2, <1>4 DEF all

\* Three lists may be put together in either order.
LEMMA CatRegroup ==
    ASSUME NEW T
    PROVE  /\ \A a, b \in Seq(T) : Cat(a, b) \in Seq(T)
           /\ \A a, b, c \in Seq(T) : Cat(Cat(a, b), c) = Cat(a, Cat(b, c))
<1>1. \A a, b \in Seq(T) : Cat(a, b) \in Seq(T)
  BY DEF Cat
<1>2. \A a, b, c \in Seq(T) : Cat(Cat(a, b), c) = Cat(a, Cat(b, c))
  BY ConcatAssociative DEF Cat
<1> QED BY <1>1, <1>2

\* No line.
LEMMA WrittenNone == Written(<<>>) = <<>>
<1>1. Broken(<<>>) = <<>>
  BY DEF Broken
<1> QED BY <1>1, FlattenEmpty DEF Written

\* One line.
LEMMA WrittenOne ==
    ASSUME NEW T, "\n" \in T, NEW a \in Seq(T) PROVE Written(<<a>>) = a \o <<"\n">>
<1> DEFINE line == a \o <<"\n">>
           none == <<>>
           S == Seq(T)
<1>1. line \in Seq(T) /\ none \in Seq(S) /\ a \in S
  OBVIOUS
<1>2. Append(none, a) = <<a>> /\ Written(none) = <<>>
  BY WrittenNone
<1> HIDE DEF line, none
<1>3. Written(Append(none, a)) = Written(none) \o line
  BY <1>1, WrittenAppend DEF line
<1>4. <<>> \o line = line
  BY <1>1
<1> QED BY <1>2, <1>3, <1>4 DEF line

\* Lines that follow lines.
LEMMA WrittenConcat ==
    ASSUME NEW T, "\n" \in T, NEW s \in Seq(Seq(T)), NEW t \in Seq(Seq(T))
    PROVE  Written(s \o t) = Written(s) \o Written(t)
<1> DEFINE S == Seq(T)
           u == s \o t
           m == Len(s)
           n == Len(t)
<1>1. /\ m \in Nat /\ n \in Nat /\ DOMAIN s = 1 .. m /\ DOMAIN t = 1 .. n
      /\ DOMAIN u = 1 .. m + n /\ Len(u) = m + n
      /\ \A i \in 1 .. m : u[i] = s[i] /\ s[i] \in S
      /\ \A i \in 1 .. n : u[m + i] = t[i] /\ t[i] \in S
  OBVIOUS
<1> DEFINE break(x) == x \o <<"\n">>
<1>2. \A x \in S : break(x) \in S
  OBVIOUS
<1>3. /\ Broken(s) = [i \in 1 .. m |-> break(s[i])] /\ Broken(t) = [i \in 1 .. n |-> break(t[i])]
      /\ Broken(u) = [i \in 1 .. m + n |-> break(u[i])]
  BY <1>1 DEF Broken
<1> HIDE DEF S, u, m, n, break
<1>4. Broken(s) \in Seq(S) /\ Broken(t) \in Seq(S) /\ Len(Broken(s)) = m /\ Len(Broken(t)) = n
  <2> DEFINE bs == [i \in 1 .. m |-> break(s[i])]
             bt == [i \in 1 .. n |-> break(t[i])]
  <2>1. (\A i \in 1 .. m : bs[i] \in S) /\ \A i \in 1 .. n : bt[i] \in S
    BY <1>1, <1>2
  <2>2. bs = [i \in 1 .. m |-> bs[i]] /\ bt = [i \in 1 .. n |-> bt[i]]
    OBVIOUS
  <2>3. m \in Nat /\ n \in Nat
    BY <1>1
  <2>4. Broken(s) = bs /\ Broken(t) = bt
    BY <1>3
  <2> HIDE DEF bs, bt
  <2>5. bs \in Seq(S) /\ Len(bs) = m
    BY <2>1, <2>2, <2>3, ListOf
  <2>6. bt \in Seq(S) /\ Len(bt) = n
    BY <2>1, <2>2, <2>3, ListOf
  <2> QED BY <2>4, <2>5, <2>6
<1> DEFINE bs == Broken(s)
           bt == Broken(t)
           bu == Broken(u)
           v == bs \o bt
<1>5. /\ \A i \in 1 .. m : bs[i] = break(s[i])
      /\ \A i \in 1 .. n : bt[i] = break(t[i])
      /\ \A i \in 1 .. m + n : bu[i] = break(u[i])
      /\ bu = [i \in 1 .. m + n |-> bu[i]]
  BY <1>3
<1> HIDE DEF bs, bt, bu
<1>6. v \in Seq(S) /\ Len(v) = m + n /\ (\A i \in 1 .. m : v[i] = bs[i])
      /\ \A i \in 1 .. n : v[m + i] = bt[i]
  BY <1>1, <1>4 DEF bs, bt
<1>7. v = [i \in 1 .. m + n |-> v[i]]
  <2> HIDE DEF v
  <2> QED BY <1>6
<1> HIDE DEF v
<1>8. ASSUME NEW i \in 1 .. m + n PROVE bu[i] = v[i]
  <2>1. CASE i \in 1 .. m
    BY <1>1, <1>5, <1>6, <2>1
  <2>2. CASE i \notin 1 .. m
    <3>1. i - m \in 1 .. n /\ m + (i - m) = i
      BY <1>1, <2>2
    <3>2. u[i] = t[i - m] /\ v[i] = bt[i - m] /\ bt[i - m] = break(t[i - m])
      BY <1>1, <1>5, <1>6, <3>1
    <3> QED BY <1>5, <3>2
  <2> QED BY <2>1, <2>2
<1>9. bu = v
  BY <1>5, <1>7, <1>8
<1>10. FlattenSeq(bs \o bt) = FlattenSeq(bs) \o FlattenSeq(bt)
  BY <1>4, FlattenConcat DEF S, bs, bt
<1> QED BY <1>9, <1>10 DEF Written, u, v, bu, bs, bt

\* Lines that are joined: all but the last have a break.
LEMMA JoinWritten ==
    ASSUME NEW T, "\n" \in T, NEW lines \in Seq(Seq(T)), NEW a \in Seq(T)
    PROVE  Join(Append(lines, a)) = Written(lines) \o a
<1> DEFINE S == Seq(T)
           Glued(l) == [i \in DOMAIN l |-> IF i = 1 THEN l[i] ELSE <<"\n">> \o l[i]]
           G == {l \in Seq(S) : \A x \in S : Join(Append(l, x)) = Written(l) \o x}
<1>1. ASSUME NEW x \in S PROVE Join(<<x>>) = x
  <2> DEFINE one == <<x>>
  <2>1. Glued(one) = one
    OBVIOUS
  <2>2. Append(<<>>, x) = one /\ <<>> \in Seq(S)
    OBVIOUS
  <2> DEFINE none == <<>>
  <2>3. FlattenSeq(Append(none, x)) = FlattenSeq(none) \o x
    <3>1. none \in Seq(Seq(T)) /\ x \in Seq(T)
      OBVIOUS
    <3> HIDE DEF none
    <3> QED BY <3>1, FlattenAppend
  <2>4. FlattenSeq(one) = <<>> \o x
    BY <2>2, <2>3, FlattenEmpty
  <2>5. <<>> \o x = x
    OBVIOUS
  <2> HIDE DEF one
  <2>6. Join(one) = FlattenSeq(Glued(one))
    BY DEF Join
  <2> QED BY <2>1, <2>4, <2>5, <2>6 DEF one
<1>2. ASSUME NEW l \in Seq(S), l # <<>>, NEW x \in S
      PROVE  Join(Append(l, x)) = Join(l) \o (<<"\n">> \o x)
  <2> DEFINE n == Len(l)
             u == Append(l, x)
             last == <<"\n">> \o x
  <2>1. n \in Nat /\ n # 0 /\ DOMAIN l = 1 .. n /\ DOMAIN u = 1 .. n + 1 /\ u[n + 1] = x
        /\ \A i \in 1 .. n : u[i] = l[i] /\ l[i] \in S
    BY <1>2
  <2>12. n \in Nat /\ n # 0
    BY <2>1
  <2>2. last \in S /\ \A y \in S : <<"\n">> \o y \in S
    OBVIOUS
  <2> DEFINE glue(y) == <<"\n">> \o y
             gl == [i \in 1 .. n |-> IF i = 1 THEN l[i] ELSE glue(l[i])]
             gu == [i \in 1 .. n + 1 |-> IF i = 1 THEN u[i] ELSE glue(u[i])]
  <2>3. Glued(l) = gl /\ Glued(u) = gu
    BY <2>1
  <2>4. glue(x) = last
    OBVIOUS
  <2> HIDE DEF u, n, S, last
  <2>5. gl \in Seq(S) /\ Len(gl) = n
    <3>1. \A y \in S : glue(y) \in S
      BY <2>2
    <3> HIDE DEF glue
    <3>2. \A i \in 1 .. n : gl[i] \in S
      BY <2>1, <3>1
    <3>3. gl = [i \in 1 .. n |-> gl[i]]
      OBVIOUS
    <3> HIDE DEF gl
    <3> QED BY <2>12, <3>2, <3>3, ListOf
  <2> DEFINE v == Append(gl, last)
  <2>6. v \in Seq(S) /\ Len(v) = n + 1 /\ \A i \in 1 .. n + 1 : v[i] = IF i = n + 1 THEN last ELSE gl[i]
    <3> HIDE DEF gl
    <3> QED BY <2>1, <2>2, <2>5
  <2>7. v = [i \in 1 .. n + 1 |-> v[i]]
    <3> HIDE DEF v
    <3> QED BY <2>1, <2>6
  <2>8. ASSUME NEW i \in 1 .. n + 1 PROVE gu[i] = v[i]
    <3> HIDE DEF glue, v
    <3>1. CASE i = n + 1
      <4>1. i # 1
        BY <2>12, <3>1
      <4>2. u[i] = x
        BY <2>1, <3>1
      <4>3. v[i] = last
        BY <2>6, <3>1
      <4> QED BY <2>4, <4>1, <4>2, <4>3
    <3>2. CASE i # n + 1
      <4>1. i \in 1 .. n
        BY <2>1, <3>2
      <4> QED BY <2>1, <2>6, <3>2, <4>1
    <3> QED BY <3>1, <3>2
  <2>9. gu = v
    <3>1. gu = [i \in 1 .. n + 1 |-> gu[i]]
      OBVIOUS
    <3> HIDE DEF gu, v
    <3> QED BY <2>7, <2>8, <3>1
  <2>10. FlattenSeq(v) = FlattenSeq(gl) \o last
    <3> HIDE DEF gl
    <3> QED BY <2>2, <2>5, FlattenAppend DEF S
  <2>11. Join(u) = FlattenSeq(gu) /\ Join(l) = FlattenSeq(gl)
    BY <2>3 DEF Join
  <2> HIDE DEF gl, gu, v
  <2> QED BY <2>9, <2>10, <2>11 DEF u, last
<1>3. <<>> \in G
  <2>1. ASSUME NEW x \in S PROVE Join(Append(<<>>, x)) = Written(<<>>) \o x
    <3>1. Append(<<>>, x) = <<x>> /\ <<>> \o x = x
      OBVIOUS
    <3> QED BY <1>1, <3>1, WrittenNone
  <2>2. <<>> \in Seq(S)
    OBVIOUS
  <2> QED BY <2>1, <2>2
<1>4. ASSUME NEW l \in Seq(S), l \in G, NEW b \in S PROVE Append(l, b) \in G
  <2> DEFINE m == Append(l, b)
             break == <<"\n">>
  <2>1. m \in Seq(S) /\ m # <<>> /\ break \in S
    OBVIOUS
  <2>2. ASSUME NEW x \in S PROVE Join(Append(m, x)) = Written(m) \o x
    <3>1. Join(m) = Written(l) \o b
      BY <1>4
    <3>2. Written(l) \in Seq(T) /\ Written(m) = Written(l) \o (b \o break)
      BY WrittenAppend
    <3> HIDE DEF m, break
    <3>3. Join(Append(m, x)) = Join(m) \o (break \o x)
      BY <1>2, <2>1 DEF break
    <3> DEFINE w == Written(l)
    <3>4. w \in Seq(T) /\ b \in Seq(T) /\ break \in Seq(T) /\ x \in Seq(T)
      BY <2>1, <3>2
    <3> HIDE DEF w
    <3>5. Cat(Cat(w, b), Cat(break, x)) = Cat(Cat(w, Cat(b, break)), x)
      BY <3>4, CatRegroup
    <3>6. (w \o b) \o (break \o x) = (w \o (b \o break)) \o x
      BY <3>5 DEF Cat
    <3> QED BY <3>1, <3>2, <3>3, <3>6 DEF w
  <2> HIDE DEF m
  <2> QED BY <2>1, <2>2 DEF m
<1> HIDE DEF G
<1>5. lines \in G
  BY <1>3, <1>4, ListInduction
<1> QED BY <1>5 DEF G

\* A text that neither starts nor ends with a space loses nothing.
LEMMA StripNothing ==
    ASSUME NEW T, NEW text \in Seq(T), text # <<>>, NEW space,
           text[1] \notin space, text[Len(text)] \notin space
    PROVE  StripSet(text, space) = text
<1> DEFINE n == Len(text)
           kept == {i \in DOMAIN text : text[i] \notin space}
<1>1. n \in Nat /\ n >= 1 /\ DOMAIN text = 1 .. n /\ SubSeq(text, 1, n) = text
  OBVIOUS
<1>2. 1 \in kept /\ n \in kept /\ \A y \in kept : 1 <= y /\ y <= n /\ y \in Int
  BY <1>1
<1> HIDE DEF kept, n
<1>3. Min(kept) = 1
  BY <1>2, MinBottom
<1>4. Max(kept) = n
  BY <1>2, MaxTop
<1>5. kept # {}
  BY <1>2
<1>6. StripSet(text, space) = SubSeq(text, Min(kept), Max(kept))
  BY <1>5 DEF StripSet, kept
<1> QED BY <1>1, <1>3, <1>4, <1>6

\* A loop that keeps every entry.
LEMMA SelectedAll ==
    ASSUME NEW S, NEW s \in Seq(S) PROVE Selected(s, S) = s
<1> DEFINE G == {l \in Seq(S) : Selected(l, S) = l}
<1>1. <<>> \in G
  BY SelectedEmpty
<1>2. ASSUME NEW l \in Seq(S), l \in G, NEW x \in S PROVE Append(l, x) \in G
  <2>1. Selected(Append(l, x), S) = Append(Selected(l, S), x)
    BY SelectedAppend
  <2>2. Append(l, x) \in Seq(S)
    OBVIOUS
  <2> QED BY <1>2, <2>1, <2>2
<1> HIDE DEF G
<1>3. s \in G
  BY <1>1, <1>2, ListInduction
<1> QED BY <1>3 DEF G

\* A list of which the beginning and the end are known.
LEMMA Joined ==
    ASSUME NEW T, NEW s \in Seq(T), NEW t \in Seq(T), NEW u \in Seq(T),
           Len(u) = Len(s) + Len(t),
           \A i \in 1 .. Len(s) : u[i] = s[i],
           \A i \in 1 .. Len(t) : u[Len(s) + i] = t[i]
    PROVE  s \o t = u
<1>1. /\ s \o t \in Seq(T) /\ Len(s \o t) = Len(s) + Len(t)
      /\ \A i \in 1 .. Len(s) + Len(t) : (s \o t)[i] =
                     IF i <= Len(s) THEN s[i] ELSE t[i - Len(s)]
  BY ConcatProperties
<1>2. ASSUME NEW i \in 1 .. Len(u) PROVE (s \o t)[i] = u[i]
  <2>1. CASE i <= Len(s)
    BY <1>1, <2>1
  <2>2. CASE ~(i <= Len(s))
    <3>1. i - Len(s) \in 1 .. Len(t) /\ Len(s) + (i - Len(s)) = i
      BY <2>2
    <3> DEFINE j == i - Len(s)
    <3>2. u[Len(s) + j] = t[j]
      BY <3>1
    <3> QED BY <1>1, <2>2, <3>1, <3>2
  <2> QED BY <2>1, <2>2
<1>3. Len(s \o t) = Len(u)
  BY <1>1
<1> DEFINE v == s \o t
<1> HIDE DEF v
<1>4. v \in Seq(T) /\ Len(v) = Len(u) /\ \A i \in 1 .. Len(v) : v[i] = u[i]
  BY <1>1, <1>2, <1>3 DEF v
<1>5. v = u
  BY <1>4, SeqEqual
<1> QED BY <1>5 DEF v

\* Tuples with one more token.
LEMMA JoinedPair == ASSUME NEW a, NEW b
    PROVE  <<a>> \o <<b>> = <<a, b>>
<1> DEFINE s == <<a>>
           t == <<b>>
           u == <<a, b>>
           T == {a, b}
<1>1. s \in Seq(T) /\ t \in Seq(T) /\ u \in Seq(T) /\ Len(s) = 1 /\ Len(t) = 1 /\ Len(u) = 2
  OBVIOUS
<1>2. \A i \in 1 .. 1 : u[i] = s[i]
  OBVIOUS
<1>3. \A i \in 1 .. 1 : u[1 + i] = t[i]
  OBVIOUS
<1> HIDE DEF s, t, u, T
<1>4. \A i \in 1 .. Len(t) : u[Len(s) + i] = t[i]
  BY <1>1, <1>3
<1>5. Len(u) = Len(s) + Len(t) /\ \A i \in 1 .. Len(s) : u[i] = s[i]
  BY <1>1, <1>2
<1>6. s \o t = u
  BY <1>1, <1>4, <1>5, Joined
<1> QED BY <1>6 DEF s, t, u

\* The same for two.
LEMMA JoinedThree == ASSUME NEW a, NEW b, NEW c
    PROVE  <<a, b>> \o <<c>> = <<a, b, c>>
<1> DEFINE s == <<a, b>>
           t == <<c>>
           u == <<a, b, c>>
           T == {a, b, c}
<1>1. s \in Seq(T) /\ t \in Seq(T) /\ u \in Seq(T) /\ Len(s) = 2 /\ Len(t) = 1 /\ Len(u) = 3
  OBVIOUS
<1>2. \A i \in 1 .. 2 : u[i] = s[i]
  OBVIOUS
<1>3. \A i \in 1 .. 1 : u[2 + i] = t[i]
  OBVIOUS
<1> HIDE DEF s, t, u, T
<1>4. \A i \in 1 .. Len(t) : u[Len(s) + i] = t[i]
  BY <1>1, <1>3
<1>5. Len(u) = Len(s) + Len(t) /\ \A i \in 1 .. Len(s) : u[i] = s[i]
  BY <1>1, <1>2
<1>6. s \o t = u
  BY <1>1, <1>4, <1>5, Joined
<1> QED BY <1>6 DEF s, t, u

\* What the plugin writes besides the words of the player.
Tokens == {"v1", "|", "7", "s", "\n", "END", "mode", "caps", "MARK", "live", "[", "]", " "}

Break == <<"\n">>
Mode == <<"mode">>
Caps == <<"caps">>
Mark == <<"MARK">>
Live == <<"live">>
End == <<"END">>

\* The lines of the context of a request: those with a break, and the last one.
Upper(live) == IF live = <<>> THEN <<Mode>> ELSE <<Mode, Caps, Mark>>
Lower(live) == IF live = <<>> THEN Caps ELSE Live

\* They are texts of those tokens.
LEMMA TokenTypes ==
    /\ "\n" \in Tokens /\ Break \in Seq(Tokens) /\ End \in Seq(Tokens)
    /\ Mode \in Seq(Tokens) /\ Caps \in Seq(Tokens) /\ Mark \in Seq(Tokens) /\ Live \in Seq(Tokens)
BY DEF Tokens, Break, Mode, Caps, Mark, Live, End

\* No line of the context has a break, a carriage return at its end, or is the end.
LEMMA TokenLines ==
    \A a \in {Mode, Caps, Mark, Live} : IsLine(a) /\ a # End /\ a # <<>>
<1>1. ASSUME NEW c, c # "\n", c # "\r", c # "END"
      PROVE IsLine(<<c>>) /\ <<c>> # End /\ <<c>> # <<>>
  <2>1. \A i \in 1 .. Len(<<c>>) : <<c>>[i] = c
    OBVIOUS
  <2>2. Last(<<c>>) = c
    BY DEF Last
  <2>3. <<c>> # End
    BY <1>1 DEF End
  <2> QED BY <1>1, <2>1, <2>2, <2>3 DEF IsLine, NoBreak, Chomp
<1> QED BY <1>1 DEF Mode, Caps, Mark, Live

\* So much for the lines.
LEMMA ContextLines ==
    ASSUME NEW live \in {<<>>, Live}
    PROVE  /\ Upper(live) \in Seq(Seq(Tokens)) /\ Lower(live) \in Seq(Tokens)
           /\ Lower(live) \in {Mode, Caps, Mark, Live}
           /\ \A k \in 1 .. Len(Upper(live)) : Upper(live)[k] \in {Mode, Caps, Mark, Live}
<1> DEFINE S == Seq(Tokens)
           F == {Mode, Caps, Mark, Live}
           one == <<Mode>>
           three == <<Mode, Caps, Mark>>
<1>1. F \subseteq S
  BY TokenTypes
<1> HIDE DEF S
<1>2. one \in Seq(F) /\ three \in Seq(F)
  OBVIOUS
<1> HIDE DEF F
<1>3. one \in Seq(S) /\ three \in Seq(S)
  BY <1>1, <1>2
<1>4. Upper(live) \in {one, three}
  BY DEF Upper
<1>5. Lower(live) \in F
  BY DEF Lower, F
<1> HIDE DEF one, three
<1>6. Upper(live) \in Seq(S) /\ \A k \in 1 .. Len(Upper(live)) : Upper(live)[k] \in F
  BY <1>2, <1>3, <1>4
<1> QED BY <1>1, <1>5, <1>6 DEF S, F

\* Texts one after the other, grouped as they are written and by lines.
LEMMA Regrouped ==
    ASSUME NEW T, NEW m \in Seq(T), NEW b \in Seq(T), NEW c \in Seq(T),
           NEW k \in Seq(T), NEW l \in Seq(T)
    PROVE  Cat(Cat(Cat(m, b), c), Cat(Cat(Cat(b, k), b), l))
             = Cat(Cat(Cat(Cat(m, b), Cat(c, b)), Cat(k, b)), l)
<1> DEFINE S == Seq(T)
<1>1. /\ \A x, y \in S : Cat(x, y) \in S
      /\ \A x, y, z \in S : Cat(Cat(x, y), z) = Cat(x, Cat(y, z))
  <2>1. \A x, y \in S : Cat(x, y) \in S
    BY CatRegroup
  <2>2. \A x, y, z \in S : Cat(Cat(x, y), z) = Cat(x, Cat(y, z))
    BY CatRegroup
  <2> QED BY <2>1, <2>2
<1> DEFINE mb == Cat(m, b)
           cb == Cat(c, b)
           kb == Cat(k, b)
<1>2. m \in S /\ b \in S /\ c \in S /\ k \in S /\ l \in S
  OBVIOUS
<1>3. mb \in S /\ cb \in S /\ kb \in S
  BY <1>1, <1>2
<1> HIDE DEF S, mb
<1>4. Cat(Cat(Cat(b, k), b), l) = Cat(b, Cat(kb, l))
  <2>1. Cat(Cat(b, k), b) = Cat(b, kb)
    BY <1>1, <1>2
  <2> HIDE DEF kb
  <2> QED BY <1>1, <1>2, <1>3, <2>1
<1> HIDE DEF kb
<1> DEFINE e == Cat(kb, l)
<1>5. e \in S
  BY <1>1, <1>2, <1>3
<1>6. Cat(Cat(Cat(mb, cb), kb), l) = Cat(Cat(mb, cb), e)
  <2>1. Cat(mb, cb) \in S
    BY <1>1, <1>3
  <2> QED BY <1>1, <1>2, <1>3, <2>1
<1> HIDE DEF e
<1>7. Cat(Cat(mb, c), Cat(b, e)) = Cat(Cat(mb, cb), e)
  <2>1. Cat(Cat(mb, c), Cat(b, e)) = Cat(mb, Cat(c, Cat(b, e)))
    <3>1. Cat(b, e) \in S
      BY <1>1, <1>2, <1>5
    <3> QED BY <1>1, <1>2, <1>3, <3>1
  <2>2. Cat(c, Cat(b, e)) = Cat(cb, e)
    BY <1>1, <1>2, <1>5
  <2> HIDE DEF cb
  <2>3. Cat(mb, Cat(cb, e)) = Cat(Cat(mb, cb), e)
    BY <1>1, <1>3, <1>5
  <2> QED BY <2>1, <2>2, <2>3
<1> HIDE DEF cb
<1>8. Cat(Cat(mb, c), Cat(Cat(Cat(b, k), b), l)) = Cat(Cat(Cat(mb, cb), kb), l)
  BY <1>4, <1>6, <1>7 DEF e
<1> QED BY <1>8 DEF mb, cb, kb

\* The text of the context is its lines, the last one without a break.
LEMMA ContextText ==
    ASSUME NEW live \in {<<>>, Live}
    PROVE  SessionContext(live) = Written(Upper(live)) \o Lower(live)
<1> DEFINE S == Seq(Tokens)
           top == <<"mode", "\n", "caps">>
           bar == <<"\n", "MARK", "\n">>
<1>1. Written(<<Mode>>) = Cat(Mode, Break)
  BY TokenTypes, WrittenOne DEF Cat, Break
<1>2. top = Cat(Cat(Mode, Break), Caps)
  <2>1. Mode \o Break = <<"mode", "\n">>
    BY JoinedPair DEF Mode, Break
  <2>2. <<"mode", "\n">> \o Caps = top
    BY JoinedThree DEF Caps
  <2> QED BY <2>1, <2>2 DEF Cat
<1>3. bar = Cat(Cat(Break, Mark), Break)
  <2>1. Break \o Mark = <<"\n", "MARK">>
    BY JoinedPair DEF Mark, Break
  <2>2. <<"\n", "MARK">> \o Break = bar
    BY JoinedThree DEF Break
  <2> QED BY <2>1, <2>2 DEF Cat
<1> HIDE DEF top, bar
<1>4. top \in S
  <2>1. Cat(Mode, Break) \in Seq(Tokens)
    BY TokenTypes, CatRegroup
  <2>2. Cat(Cat(Mode, Break), Caps) \in Seq(Tokens)
    BY <2>1, TokenTypes, CatRegroup
  <2> QED BY <1>2, <2>2
<1>5. SessionContext(live) = IF live = <<>> THEN top \o <<>> ELSE top \o (bar \o live)
  BY DEF SessionContext, top, bar
<1>6. CASE live = <<>>
  <2>1. top \o <<>> = top
    BY <1>4, ConcatEmptySeq DEF S
  <2> QED BY <1>1, <1>2, <1>5, <1>6, <2>1 DEF Upper, Lower, Cat
<1>7. CASE live # <<>>
  <2>1. live = Live /\ Upper(live) = <<Mode, Caps, Mark>> /\ Lower(live) = Live
    BY <1>7 DEF Upper, Lower
  <2>2. Written(<<Mode, Caps>>) = Cat(Cat(Mode, Break), Cat(Caps, Break))
    <3> DEFINE one == <<Mode>>
    <3>2. one \in Seq(S)
      <4> HIDE DEF S
      <4>1. Mode \in S
        BY TokenTypes DEF S
      <4> QED BY <4>1
    <3>1. Append(one, Caps) = <<Mode, Caps>>
      <4>1. one \o <<Caps>> = <<Mode, Caps>>
        BY JoinedPair
      <4> HIDE DEF one
      <4>2. Append(one, Caps) = one \o <<Caps>>
        BY <3>2, TokenTypes, AppendIsConcat
      <4> QED BY <4>1, <4>2
    <3> HIDE DEF one
    <3>3. Written(Append(one, Caps)) = Written(one) \o (Caps \o <<"\n">>)
      BY <3>2, TokenTypes, WrittenAppend
    <3> QED BY <1>1, <3>1, <3>3 DEF Cat, Break, one
  <2>3. Written(<<Mode, Caps, Mark>>)
            = Cat(Cat(Cat(Mode, Break), Cat(Caps, Break)), Cat(Mark, Break))
    <3> DEFINE two == <<Mode, Caps>>
    <3>2. two \in Seq(S)
      <4> HIDE DEF S
      <4>1. Mode \in S /\ Caps \in S
        BY TokenTypes DEF S
      <4> QED BY <4>1
    <3>1. Append(two, Mark) = <<Mode, Caps, Mark>>
      <4>1. two \o <<Mark>> = <<Mode, Caps, Mark>>
        BY JoinedThree
      <4> HIDE DEF two
      <4>2. Append(two, Mark) = two \o <<Mark>>
        BY <3>2, TokenTypes, AppendIsConcat
      <4> QED BY <4>1, <4>2
    <3> HIDE DEF two
    <3>3. Written(Append(two, Mark)) = Written(two) \o (Mark \o <<"\n">>)
      BY <3>2, TokenTypes, WrittenAppend
    <3> QED BY <2>2, <3>1, <3>3 DEF Cat, Break, two
  <2>4. Cat(Cat(Cat(Mode, Break), Caps), Cat(Cat(Cat(Break, Mark), Break), Live))
          = Cat(Cat(Cat(Cat(Mode, Break), Cat(Caps, Break)), Cat(Mark, Break)), Live)
    BY TokenTypes, Regrouped
  <2>5. SessionContext(live) = Cat(top, Cat(bar, Live))
    BY <1>5, <1>7, <2>1 DEF Cat
  <2>6. Written(Upper(live)) \o Lower(live) = Cat(Written(<<Mode, Caps, Mark>>), Live)
    BY <2>1 DEF Cat
  <2> QED BY <1>2, <1>3, <2>3, <2>4, <2>5, <2>6
<1> QED BY <1>6, <1>7

\* The daemon reads those lines back.
LEMMA ContextRead ==
    ASSUME NEW live \in {<<>>, Live}
    PROVE  Lines(SessionContext(live)) = Append(Upper(live), Lower(live))
<1> DEFINE u == Upper(live)
           l == Lower(live)
<1>1. u \in Seq(Seq(Tokens)) /\ l \in Seq(Tokens) /\ l # <<>> /\ IsLine(l)
  BY ContextLines, TokenLines
<1>2. \A k \in 1 .. Len(u) : IsLine(u[k])
  BY ContextLines, TokenLines
<1> HIDE DEF u, l
<1>3. Lines(Written(u) \o l) = Append(u, l)
  BY <1>1, <1>2, TokenTypes, UnendedRead
<1> QED BY <1>3, ContextText DEF u, l

\* The first and the last token of the context.
LEMMA ContextEnds ==
    ASSUME NEW live \in {<<>>, Live}
    PROVE  LET c == SessionContext(live) IN
           /\ c \in Seq(Tokens) /\ c # <<>>
           /\ c[1] = "mode" /\ c[Len(c)] \in {"caps", "live"}
<1> DEFINE c == SessionContext(live)
           u == Written(Upper(live))
           l == Lower(live)
           top == <<"mode", "\n", "caps">>
           rest == IF live = <<>> THEN <<>> ELSE <<"\n", "MARK", "\n">> \o live
<1>1. c = u \o l
  BY ContextText
<1>2. u \in Seq(Tokens) /\ l \in Seq(Tokens)
  BY ContextLines, TokenTypes, WrittenAppend
<1>3. Len(l) = 1 /\ l[1] \in {"caps", "live"}
  BY DEF Lower, Caps, Live
<1>4. c = top \o rest
  BY DEF SessionContext
<1>5. Len(top) = 3 /\ top[1] = "mode" /\ top \in Seq(Tokens)
  BY DEF Tokens
<1>6. rest \in Seq(Tokens)
  <2> DEFINE bar == <<"\n", "MARK", "\n">>
  <2>1. bar \in Seq(Tokens)
    BY DEF Tokens
  <2>2. <<>> \in Seq(Tokens)
    OBVIOUS
  <2>3. live \in Seq(Tokens)
    BY <2>2, TokenTypes
  <2> HIDE DEF bar
  <2>4. bar \o live \in Seq(Tokens)
    BY <2>1, <2>3, ConcatProperties
  <2> QED BY <2>2, <2>4 DEF bar
<1> HIDE DEF u, l, top, rest
<1>7. c \in Seq(Tokens) /\ Len(c) = Len(u) + 1 /\ c[Len(c)] = l[1]
  <2>0. /\ u \o l \in Seq(Tokens) /\ Len(u \o l) = Len(u) + Len(l)
        /\ \A i \in 1 .. Len(u) + Len(l) : (u \o l)[i] =
                IF i <= Len(u) THEN u[i] ELSE l[i - Len(u)]
    BY <1>2, ConcatProperties
  <2>1. u \o l \in Seq(Tokens) /\ Len(u \o l) = Len(u) + 1
    BY <1>3, <2>0
  <2>2. (u \o l)[Len(u) + 1] = l[1]
    <3>1. Len(u) \in Nat
      BY <1>2
    <3>2. Len(u) + 1 \in 1 .. Len(u) + Len(l) /\ ~(Len(u) + 1 <= Len(u)) /\ (Len(u) + 1) - Len(u) = 1
      BY <1>3, <3>1
    <3> QED BY <2>0, <3>2
  <2> HIDE DEF c
  <2> QED BY <1>1, <2>1, <2>2
<1>8. c[1] = "mode"
  <2>1. (top \o rest)[1] = top[1]
    <3>1. \A i \in 1 .. Len(top) + Len(rest) : (top \o rest)[i] =
                IF i <= Len(top) THEN top[i] ELSE rest[i - Len(top)]
      BY <1>5, <1>6, ConcatProperties
    <3>2. Len(rest) \in Nat
      BY <1>6
    <3> QED BY <1>5, <3>1, <3>2
  <2> HIDE DEF c
  <2> QED BY <1>4, <1>5, <2>1
<1>9. c # <<>>
  <2> HIDE DEF c
  <2>1. Len(u) \in Nat
    BY <1>2
  <2> QED BY <1>7, <2>1
<1> QED BY <1>3, <1>7, <1>8, <1>9

\* It starts and ends with something else than a space.
LEMMA ContextStripped ==
    ASSUME NEW live \in {<<>>, Live} PROVE Strip(SessionContext(live)) = SessionContext(live)
<1> DEFINE c == SessionContext(live)
<1>1. /\ c \in Seq(Tokens) /\ c # <<>>
      /\ c[1] = "mode" /\ c[Len(c)] \in {"caps", "live"}
  BY ContextEnds
<1> HIDE DEF c
<1>2. c[1] \notin PythonSpace
  BY <1>1 DEF PythonSpace, Space
<1>3. c[Len(c)] \notin PythonSpace
  BY <1>1 DEF PythonSpace, Space
<1>4. c \in Seq(Tokens) /\ c # <<>>
  BY <1>1
<1>5. StripSet(c, PythonSpace) = c
  BY <1>2, <1>3, <1>4, StripNothing
<1> QED BY <1>5 DEF Strip, c

\* None of its lines is taken for the end of the file.
LEMMA ContextSanitized ==
    ASSUME NEW live \in {<<>>, Live}
    PROVE  SanitizeContext(SessionContext(live)) = SessionContext(live)
<1> DEFINE c == SessionContext(live)
           u == Upper(live)
           l == Lower(live)
           lines == Append(u, l)
           S == Seq(Tokens)
           F == {Mode, Caps, Mark, Live}
<1>1. Lines(c) = lines
  BY ContextRead
<1>2. u \in Seq(S) /\ l \in S /\ l \in F /\ \A k \in 1 .. Len(u) : u[k] \in F
  BY ContextLines
<1> HIDE DEF c, u, l
<1> DEFINE Safe2(x) == IF x = End THEN <<"[", "END", "]">> ELSE x
<1>3. \A x \in F : Safe2(x) = x
  BY TokenLines
<1> HIDE DEF F, S
<1>4. Len(lines) = Len(u) + 1 /\ lines \in Seq(S) /\ DOMAIN lines = 1 .. Len(u) + 1
      /\ Len(u) \in Nat
      /\ lines[Len(u) + 1] = l /\ \A k \in 1 .. Len(u) : lines[k] = u[k]
  BY <1>2
<1> HIDE DEF lines
<1>5. \A k \in DOMAIN lines : lines[k] \in F
  BY <1>2, <1>4
<1> DEFINE safe == [k \in DOMAIN lines |-> Safe2(lines[k])]
<1>6. safe = lines
  <2>1. \A k \in DOMAIN lines : Safe2(lines[k]) = lines[k]
    BY <1>3, <1>5
  <2> HIDE DEF Safe2
  <2>2. safe = [k \in DOMAIN lines |-> lines[k]]
    BY <2>1
  <2>3. lines = [k \in DOMAIN lines |-> lines[k]]
    BY <1>4
  <2> QED BY <2>2, <2>3
<1>7. SanitizeContext(c) = Join(safe)
  BY <1>1 DEF SanitizeContext, End
<1>8. Join(lines) = Written(u) \o l
  BY <1>2, TokenTypes, JoinWritten DEF S, lines
<1>9. c = Written(u) \o l
  BY ContextText DEF c, u, l
<1> HIDE DEF safe
<1>10. SanitizeContext(c) = c
  BY <1>6, <1>7, <1>8, <1>9
<1> QED BY <1>10 DEF c

\* What comes before the question in the header.
Preface == <<"v1", "|", "7", "|", "s", "|">>
Header(text) == Preface \o SanitizeLine(text)

\* What the player typed and what the plugin adds.
Alphabet(T) == T \cup Tokens

\* A question is one line, whatever was typed.
LEMMA SanitizedLine ==
    ASSUME NEW T, NEW text \in Seq(T)
    PROVE  LET s == SanitizeLine(text) IN
           /\ s \in Seq(Alphabet(T)) /\ Len(s) = Len(text)
           /\ \A i \in 1 .. Len(s) : s[i] # "\n" /\ s[i] # "\r"
<1> DEFINE n == Len(text)
           clean(c) == IF c \in {"\n", "\r"} THEN " " ELSE c
           s == [i \in 1 .. n |-> clean(text[i])]
<1>1. n \in Nat /\ DOMAIN text = 1 .. n /\ \A i \in 1 .. n : text[i] \in T
  OBVIOUS
<1>2. SanitizeLine(text) = s
  BY <1>1 DEF SanitizeLine
<1>3. \A c \in T : clean(c) \in Alphabet(T) /\ clean(c) # "\n" /\ clean(c) # "\r"
  BY DEF Alphabet, Tokens
<1> HIDE DEF clean, n
<1>4. \A i \in 1 .. n : s[i] \in Alphabet(T) /\ s[i] # "\n" /\ s[i] # "\r"
  BY <1>1, <1>3
<1>5. s = [i \in 1 .. n |-> s[i]]
  OBVIOUS
<1> HIDE DEF s
<1>6. s \in Seq(Alphabet(T)) /\ Len(s) = n
  BY <1>1, <1>4, <1>5, ListOf
<1> QED BY <1>2, <1>4, <1>6 DEF n

\* The header of a request is a line.
LEMMA HeaderLine ==
    ASSUME NEW T, NEW text \in Seq(T)
    PROVE  LET h == Header(text)
               s == SanitizeLine(text)
           IN /\ h \in Seq(Alphabet(T)) /\ IsLine(h) /\ Len(h) = 6 + Len(s)
              /\ h[1] = "v1" /\ h[2] = "|" /\ h[3] = "7" /\ h[4] = "|"
              /\ h[5] = "s" /\ h[6] = "|"
              /\ \A i \in 1 .. Len(s) : h[6 + i] = s[i]
<1> DEFINE h == Header(text)
           s == SanitizeLine(text)
           U == Alphabet(T)
           p == Preface
<1>1. s \in Seq(U) /\ \A i \in 1 .. Len(s) : s[i] # "\n" /\ s[i] # "\r"
  BY SanitizedLine
<1>2. p \in Seq(U) /\ Len(p) = 6
  BY DEF Preface, Alphabet, Tokens
<1>3. /\ p[1] = "v1" /\ p[2] = "|" /\ p[3] = "7" /\ p[4] = "|" /\ p[5] = "s" /\ p[6] = "|"
  BY DEF Preface
<1>4. h = p \o s
  BY DEF Header
<1> HIDE DEF h, s, U, p
<1>5. /\ p \o s \in Seq(U) /\ Len(p \o s) = Len(p) + Len(s)
      /\ \A i \in 1 .. Len(p) + Len(s) : (p \o s)[i] =
                     IF i <= Len(p) THEN p[i] ELSE s[i - Len(p)]
  BY <1>1, <1>2, ConcatProperties
<1>6. Len(s) \in Nat
  BY <1>1
<1>7. h \in Seq(U) /\ Len(h) = 6 + Len(s)
  BY <1>2, <1>4, <1>5
<1>8. \A i \in 1 .. 6 : h[i] = p[i]
  BY <1>2, <1>4, <1>5, <1>6
<1>9. \A i \in 1 .. Len(s) : h[6 + i] = s[i]
  <2> SUFFICES ASSUME NEW i \in 1 .. Len(s) PROVE h[6 + i] = s[i]
    OBVIOUS
  <2>1. 6 + i \in 1 .. 6 + Len(s) /\ ~(6 + i <= 6) /\ (6 + i) - 6 = i
    BY <1>6
  <2> QED BY <1>2, <1>4, <1>5, <2>1
<1> DEFINE Plain(c) == c # "\n" /\ c # "\r"
<1>10. Plain(p[1]) /\ Plain(p[2]) /\ Plain(p[3]) /\ Plain(p[4]) /\ Plain(p[5]) /\ Plain(p[6])
  BY <1>3
<1>11. \A i \in 1 .. Len(s) : Plain(s[i])
  BY <1>1
<1> HIDE DEF Plain
<1>12. \A i \in 1 .. Len(h) : Plain(h[i])
  <2> SUFFICES ASSUME NEW i \in 1 .. Len(h) PROVE Plain(h[i])
    OBVIOUS
  <2>1. CASE i \in 1 .. 6
    <3>1. i = 1 \/ i = 2 \/ i = 3 \/ i = 4 \/ i = 5 \/ i = 6
      BY <2>1
    <3> QED BY <1>8, <1>10, <2>1, <3>1
  <2>2. CASE i \notin 1 .. 6
    <3>1. i - 6 \in 1 .. Len(s) /\ 6 + (i - 6) = i
      BY <1>6, <1>7, <2>2
    <3> QED BY <1>9, <1>11, <3>1
  <2> QED BY <2>1, <2>2
<1>13. Len(h) \in 1 .. Len(h) /\ h # <<>>
  BY <1>6, <1>7
<1>14. IsLine(h)
  <2>1. Last(h) = h[Len(h)]
    BY DEF Last
  <2>2. Last(h) # "\r"
    BY <1>12, <1>13, <2>1 DEF Plain
  <2>3. Chomp(h) = h
    BY <2>2 DEF Chomp
  <2>4. NoBreak(h)
    BY <1>12 DEF NoBreak, Plain
  <2> QED BY <2>3, <2>4 DEF IsLine
<1>15. /\ h[1] = p[1] /\ h[2] = p[2] /\ h[3] = p[3] /\ h[4] = p[4] /\ h[5] = p[5] /\ h[6] = p[6]
  <2>1. 1 \in 1 .. 6 /\ 2 \in 1 .. 6 /\ 3 \in 1 .. 6 /\ 4 \in 1 .. 6 /\ 5 \in 1 .. 6 /\ 6 \in 1 .. 6
    OBVIOUS
  <2> QED BY <1>8, <2>1
<1> QED BY <1>3, <1>7, <1>9, <1>14, <1>15 DEF h, s, U

\* The lines of a request: the header, the context, the end.
Request(text, live) == Append(<<Header(text)>> \o Append(Upper(live), Lower(live)), End)

\* What the plugin writes is read back line by line.
LEMMA RequestRead ==
    ASSUME NEW T, NEW text \in Seq(T), NEW live \in {<<>>, Live}
    PROVE  /\ Request(text, live) \in Seq(Seq(Alphabet(T)))
           /\ Lines(WriteRequest("7", "s", text, SessionContext(live))) = Request(text, live)
<1> DEFINE U == Alphabet(T)
           S == Seq(U)
           u == Upper(live)
           l == Lower(live)
           h == Header(text)
           first == <<h>>
           L == Append(u, l)
           M == first \o L
           all == Append(M, End)
           F == {Mode, Caps, Mark, Live}
<1>1. h \in S /\ IsLine(h)
  BY HeaderLine
<1>2. Tokens \subseteq U /\ Seq(Tokens) \subseteq S /\ Seq(Seq(Tokens)) \subseteq Seq(S)
  <2>1. Tokens \subseteq U
    BY DEF Alphabet
  <2> HIDE DEF U
  <2>2. Seq(Tokens) \subseteq S
    BY <2>1, WiderSeq
  <2> HIDE DEF S
  <2> QED BY <2>1, <2>2, WiderSeq
<1>3. Break \in S /\ End \in S /\ l \in S /\ l \in F /\ "\n" \in U
  BY <1>2, TokenTypes, ContextLines
<1>4. u \in Seq(S) /\ \A k \in 1 .. Len(u) : u[k] \in F
  BY <1>2, ContextLines
<1>5. \A a \in F : IsLine(a)
  BY TokenLines
<1>6. IsLine(End)
  <2>1. \A i \in 1 .. Len(End) : End[i] = "END"
    BY DEF End
  <2>2. Last(End) = "END"
    BY DEF End, Last
  <2> QED BY <2>1, <2>2 DEF IsLine, NoBreak, Chomp
<1>7. WriteRequest("7", "s", text, SessionContext(live))
        = Cat(Cat(Cat(h, Break), Cat(Cat(Written(u), l), Break)), Cat(End, Break))
  <2> DEFINE c == SessionContext(live)
  <2>1. SanitizeContext(c) = c /\ c # <<>> /\ c = Cat(Written(u), l)
    BY ContextSanitized, ContextEnds, ContextText DEF Cat
  <2> HIDE DEF c
  <2>2. <<"END", "\n">> = Cat(End, Break)
    BY JoinedPair DEF End, Break, Cat
  <2> HIDE DEF u, l
  <2>3. WriteRequest("7", "s", text, c)
          = Cat(Cat(Cat(h, Break), Cat(c, Break)), <<"END", "\n">>)
    BY <2>1 DEF WriteRequest, Cat, Header, Preface, Break
  <2> QED BY <2>1, <2>2, <2>3 DEF c
<1> HIDE DEF U, u, l, h, F
<1>8. Written(u) \in S /\ Written(L) = Cat(Written(u), Cat(l, Break))
  <2>1. /\ Written(u) \in S
        /\ Written(Append(u, l)) = Written(u) \o (l \o <<"\n">>)
    BY <1>3, <1>4, WrittenAppend
  <2> QED BY <2>1 DEF Cat, Break
<1>9. Written(first) = Cat(h, Break)
  BY <1>1, <1>3, WrittenOne DEF Cat, Break
<1>10. /\ first \in Seq(S) /\ Len(first) = 1 /\ first[1] = h
  <2> HIDE DEF S
  <2> QED BY <1>1
<1>11. L \in Seq(S) /\ Len(L) = Len(u) + 1 /\ Len(u) \in Nat /\ L[Len(u) + 1] = l
       /\ \A k \in 1 .. Len(u) : L[k] = u[k]
  <2> HIDE DEF S
  <2> QED BY <1>3, <1>4
<1> HIDE DEF first, L
<1>12. Written(M) = Cat(Written(first), Written(L))
  BY <1>3, <1>10, <1>11, WrittenConcat DEF Cat
<1>13. /\ M \in Seq(S) /\ Len(M) = Len(first) + Len(L)
       /\ \A i \in 1 .. Len(first) + Len(L) : M[i] =
                     IF i <= Len(first) THEN first[i] ELSE L[i - Len(first)]
  <2> HIDE DEF S
  <2> QED BY <1>10, <1>11, ConcatProperties
<1> HIDE DEF M
<1>14. Written(all) = Cat(Written(M), Cat(End, Break))
  BY <1>3, <1>13, WrittenAppend DEF Cat, Break
<1>15. /\ all \in Seq(S) /\ Len(all) = Len(M) + 1 /\ Len(M) \in Nat /\ all[Len(M) + 1] = End
       /\ \A k \in 1 .. Len(M) : all[k] = M[k]
  <2> HIDE DEF S
  <2> QED BY <1>3, <1>13
<1> HIDE DEF all
<1>16. \A k \in 1 .. Len(all) : IsLine(all[k])
  <2>1. \A k \in 1 .. Len(L) : IsLine(L[k])
    <3> SUFFICES ASSUME NEW k \in 1 .. Len(L) PROVE IsLine(L[k])
      OBVIOUS
    <3>1. k \in 1 .. Len(u) \/ k = Len(u) + 1
      BY <1>11
    <3> QED BY <1>3, <1>4, <1>5, <1>11, <3>1
  <2>2. \A k \in 1 .. Len(M) : IsLine(M[k])
    <3> SUFFICES ASSUME NEW k \in 1 .. Len(M) PROVE IsLine(M[k])
      OBVIOUS
    <3>1. CASE k = 1
      <4>0. 1 \in 1 .. Len(first) + Len(L) /\ 1 <= Len(first)
        BY <1>10, <1>11
      <4>1. M[1] = h
        BY <1>10, <1>13, <4>0
      <4> QED BY <1>1, <3>1, <4>1
    <3>2. CASE k # 1
      <4>1. k - 1 \in 1 .. Len(L) /\ ~(k <= Len(first)) /\ k \in 1 .. Len(first) + Len(L)
        BY <1>10, <1>11, <1>13, <3>2
      <4>2. M[k] = L[k - 1]
        BY <1>10, <1>13, <4>1
      <4> QED BY <2>1, <4>1, <4>2
    <3> QED BY <3>1, <3>2
  <2> SUFFICES ASSUME NEW k \in 1 .. Len(all) PROVE IsLine(all[k])
    OBVIOUS
  <2>3. k \in 1 .. Len(M) \/ k = Len(M) + 1
    BY <1>15
  <2> QED BY <1>6, <1>15, <2>2, <2>3
<1>17. Lines(Written(all)) = all
  BY <1>3, <1>15, <1>16, WrittenRead
<1>18. Cat(Cat(Written(u), l), Break) = Cat(Written(u), Cat(l, Break))
  BY <1>3, <1>8, CatRegroup
<1>19. WriteRequest("7", "s", text, SessionContext(live)) = Written(all)
  BY <1>7, <1>8, <1>9, <1>12, <1>14, <1>18
<1>20. Request(text, live) = all
  BY DEF Request, all, M, first, L, h, u, l
<1> QED BY <1>15, <1>17, <1>19, <1>20 DEF U

\* The fields of the header: the version, two numbers, and the question with
\* whatever bars are in it.
LEMMA HeaderFields ==
    ASSUME NEW T, NEW text \in Seq(T)
    PROVE  LET f == Fields(Header(text)) IN
           /\ Len(f) = 4 /\ f[1] = <<"v1">> /\ f[2] = <<"7">> /\ f[3] = <<"s">>
           /\ f[4] = SanitizeLine(text)
<1> DEFINE h == Header(text)
           s == SanitizeLine(text)
           U == Alphabet(T)
           n == Len(h)
           bars == {i \in DOMAIN h : h[i] = "|"}
           at == InOrder(bars, <)
           m == Cardinality(bars)
           below(x) == {y \in bars : y < x}
<1>1. h \in Seq(U) /\ n = 6 + Len(s) /\ s \in Seq(U)
  BY HeaderLine, SanitizedLine
<1>2. /\ h[1] = "v1" /\ h[2] = "|" /\ h[3] = "7" /\ h[4] = "|" /\ h[5] = "s" /\ h[6] = "|"
  BY HeaderLine
<1>3. \A i \in 1 .. Len(s) : h[6 + i] = s[i]
  BY HeaderLine
<1>4. n \in Nat /\ n >= 6 /\ DOMAIN h = 1 .. n /\ Len(s) \in Nat
  BY <1>1
<1>5. bars = {2, 4, 6} \cup {i \in 7 .. n : h[i] = "|"}
  <2>1. \A i \in 1 .. n : i = 1 \/ i = 2 \/ i = 3 \/ i = 4 \/ i = 5 \/ i = 6 \/ i \in 7 .. n
    BY <1>4
  <2>2. \A i \in {1, 2, 3, 4, 5, 6} \cup (7 .. n) : i \in 1 .. n
    BY <1>4
  <2> QED BY <1>2, <1>4, <2>1, <2>2
<1>6. IsFiniteSet(bars)
  <2>1. IsFiniteSet(1 .. n) /\ bars \subseteq 1 .. n
    BY <1>4, FS_Interval
  <2> QED BY <2>1, FS_Subset
<1> DEFINE more == {i \in 7 .. n : h[i] = "|"}
<1>7. bars = {2, 4, 6} \cup more /\ \A i \in more : i \in Int /\ i > 6
  BY <1>4, <1>5
<1> HIDE DEF h, s, U, n, more
<1>8. at = [k \in 1 .. m |-> CHOOSE x \in bars : Cardinality(below(x)) = k - 1]
  BY DEF InOrder
<1>9. below(2) = {} /\ below(4) = {2} /\ below(6) = {2, 4}
  BY <1>7
<1>10. \A x \in bars : x = 2 \/ x = 4 \/ x = 6 \/ {2, 4, 6} \subseteq below(x)
  BY <1>7
<1> HIDE DEF bars
<1>11. Cardinality({}) = 0 /\ Cardinality({2}) = 1 /\ Cardinality({2, 4}) = 2
       /\ Cardinality({2, 4, 6}) = 3 /\ IsFiniteSet({2, 4, 6})
  <2>1. Cardinality({}) = 0 /\ IsFiniteSet({})
    BY FS_EmptySet
  <2>2. Cardinality({2}) = 1 /\ IsFiniteSet({2})
    BY FS_Singleton
  <2> DEFINE one == {2}
             two == {2, 4}
             three == {2, 4, 6}
             with4 == one \cup {4}
             with6 == two \cup {6}
  <2>3. 4 \notin one /\ 6 \notin two
    OBVIOUS
  <2>6. with4 = two /\ with6 = three
    OBVIOUS
  <2> HIDE DEF one, two, three
  <2>4. Cardinality(two) = 2 /\ IsFiniteSet(two)
    <3>1. Cardinality(one) = 1 /\ IsFiniteSet(one)
      BY <2>2 DEF one
    <3>2. IsFiniteSet(with4)
          /\ Cardinality(with4) = IF 4 \in one THEN Cardinality(one) ELSE Cardinality(one) + 1
      BY <3>1, FS_AddElement
    <3> HIDE DEF with4, with6
    <3>3. Cardinality(with4) = 2 /\ IsFiniteSet(with4)
      BY <2>3, <3>1, <3>2
    <3> QED BY <2>6, <3>3
  <2>5. Cardinality(three) = 3 /\ IsFiniteSet(three)
    <3>2. IsFiniteSet(with6)
          /\ Cardinality(with6) = IF 6 \in two THEN Cardinality(two) ELSE Cardinality(two) + 1
      BY <2>4, FS_AddElement
    <3> HIDE DEF with4, with6
    <3>3. Cardinality(with6) = 3 /\ IsFiniteSet(with6)
      BY <2>3, <2>4, <3>2
    <3> QED BY <2>6, <3>3
  <2> QED BY <2>1, <2>2, <2>4, <2>5 DEF two, three
<1>12. \A x \in bars : {2, 4, 6} \subseteq below(x) => Cardinality(below(x)) >= 3
  <2> SUFFICES ASSUME NEW x \in bars, {2, 4, 6} \subseteq below(x)
               PROVE  Cardinality(below(x)) >= 3
    OBVIOUS
  <2> DEFINE D == below(x)
             three == {2, 4, 6}
  <2>1. IsFiniteSet(D)
    <3>1. D \subseteq bars
      OBVIOUS
    <3> HIDE DEF D
    <3> QED BY <1>6, <3>1, FS_Subset
  <2>2. three \subseteq D
    OBVIOUS
  <2> HIDE DEF D, three
  <2>3. Cardinality(three) <= Cardinality(D) /\ Cardinality(D) \in Nat
    BY <2>1, <2>2, FS_Subset, FS_CardinalityType
  <2>4. Cardinality(three) = 3
    BY <1>11 DEF three
  <2> QED BY <2>3, <2>4 DEF D
<1>13. m \in Nat /\ m >= 3
  <2>1. {2, 4, 6} \subseteq bars
    BY <1>7
  <2>2. Cardinality({2, 4, 6}) <= m /\ m \in Nat
    BY <1>6, <2>1, FS_Subset, FS_CardinalityType
  <2> QED BY <1>11, <2>2
<1> HIDE DEF below
<1> DEFINE rank == [x \in bars |-> Cardinality(below(x))]
<1>14. rank[2] = 0 /\ rank[4] = 1 /\ rank[6] = 2
  BY <1>7, <1>9, <1>11
<1>15. \A x \in bars : x = 2 \/ x = 4 \/ x = 6 \/ rank[x] >= 3
  BY <1>10, <1>12
<1>16. \A x \in bars : rank[x] = Cardinality(below(x)) /\ rank[x] \in Nat
  <2> SUFFICES ASSUME NEW x \in bars PROVE rank[x] = Cardinality(below(x)) /\ rank[x] \in Nat
    OBVIOUS
  <2>1. below(x) \subseteq bars
    BY DEF below
  <2>2. Cardinality(below(x)) \in Nat
    BY <1>6, <2>1, FS_Subset, FS_CardinalityType
  <2> QED BY <2>2
<1> HIDE DEF rank
<1> DEFINE pick(k) == CHOOSE x \in bars : rank[x] = k - 1
<1>17. \A k \in 1 .. 3 : at[k] = pick(k)
  <2> SUFFICES ASSUME NEW k \in 1 .. 3 PROVE at[k] = pick(k)
    OBVIOUS
  <2>1. k \in 1 .. m
    BY <1>13
  <2>2. at[k] = CHOOSE x \in bars : Cardinality(below(x)) = k - 1
    BY <1>8, <2>1
  <2>3. \A x : x \in bars /\ Cardinality(below(x)) = k - 1 <=> x \in bars /\ rank[x] = k - 1
    BY <1>16
  <2> QED BY <2>2, <2>3
<1>18. 2 \in bars /\ 4 \in bars /\ 6 \in bars
  BY <1>7
<1>19. at[1] = 2 /\ at[2] = 4 /\ at[3] = 6
  <2>1. \A x \in bars : (rank[x] = 1 - 1 <=> x = 2) /\ (rank[x] = 2 - 1 <=> x = 4)
                      /\ (rank[x] = 3 - 1 <=> x = 6)
    BY <1>14, <1>15, <1>16
  <2>2. pick(1) = 2
    BY <1>18, <2>1
  <2>3. pick(2) = 4
    BY <1>18, <2>1
  <2>4. pick(3) = 6
    BY <1>18, <2>1
  <2> HIDE DEF at, pick
  <2>5. 1 \in 1 .. 3 /\ 2 \in 1 .. 3 /\ 3 \in 1 .. 3
    OBVIOUS
  <2> QED BY <1>17, <2>2, <2>3, <2>4, <2>5
<1> HIDE DEF at
<1> DEFINE cuts == SubSeq(at, 1, IF m < 3 THEN m ELSE 3)
<1>20. Len(at) = m /\ DOMAIN at = 1 .. m
  BY <1>8, <1>13
<1>21. Len(cuts) = 3 /\ cuts[1] = 2 /\ cuts[2] = 4 /\ cuts[3] = 6
  <2>1. (IF m < 3 THEN m ELSE 3) = 3
    BY <1>13
  <2>2. \A i \in 1 .. 3 : at[i] \in {2, 4, 6}
    <3>1. \A i \in 1 .. 3 : i = 1 \/ i = 2 \/ i = 3
      OBVIOUS
    <3> QED BY <1>19, <3>1
  <2> DEFINE three == 3
  <2>3. cuts = SubSeq(at, 1, three) /\ three \in Int
    BY <2>1
  <2> HIDE DEF cuts
  <2>4. Len(cuts) = 3 /\ \A i \in 1 .. 3 : cuts[i] = at[i]
    <3>1. /\ Len(SubSeq(at, 1, 3)) = IF 1 <= 3 THEN 3 - 1 + 1 ELSE 0
          /\ \A i \in 1 .. 3 - 1 + 1 : SubSeq(at, 1, 3)[i] = at[1 + i - 1]
      BY <2>2, SubSeqProperties
    <3> QED BY <2>3, <3>1
  <2>5. 1 \in 1 .. 3 /\ 2 \in 1 .. 3 /\ 3 \in 1 .. 3
    OBVIOUS
  <2> QED BY <1>19, <2>4, <2>5
<1> HIDE DEF cuts
<1> DEFINE first(k) == IF k = 1 THEN 1 ELSE cuts[k - 1] + 1
           last(k) == IF k > Len(cuts) THEN Len(h) ELSE cuts[k] - 1
           f == [k \in 1 .. Len(cuts) + 1 |-> SubSeq(h, first(k), last(k))]
<1>22. Fields(h) = f
  <2>1. 4 - 1 = 3
    OBVIOUS
  <2> QED BY <1>20, <2>1 DEF Fields, Split, cuts, at, bars, m
<1>23. DOMAIN f = 1 .. 4 /\ Len(f) = 4
  BY <1>21
<1>24. f[1] = SubSeq(h, 1, 1) /\ f[2] = SubSeq(h, 3, 3) /\ f[3] = SubSeq(h, 5, 5)
       /\ f[4] = SubSeq(h, 7, n)
  <2>1. first(1) = 1 /\ last(1) = 1 /\ first(2) = 3 /\ last(2) = 3 /\ first(3) = 5 /\ last(3) = 5
        /\ first(4) = 7 /\ last(4) = Len(h)
    BY <1>21
  <2>2. 1 \in 1 .. Len(cuts) + 1 /\ 2 \in 1 .. Len(cuts) + 1 /\ 3 \in 1 .. Len(cuts) + 1
        /\ 4 \in 1 .. Len(cuts) + 1
    BY <1>21
  <2> HIDE DEF first, last
  <2> QED BY <2>1, <2>2 DEF n
<1> HIDE DEF f
<1>25. ASSUME NEW i \in 1 .. n PROVE SubSeq(h, i, i) = <<h[i]>>
  <2> DEFINE part == SubSeq(h, i, i)
             x == h[i]
             one == <<x>>
  <2>1. x \in U /\ \A j \in i .. i : h[j] \in U
    BY <1>1, <1>4
  <2>2. /\ part \in Seq(U) /\ Len(part) = (IF i <= i THEN i - i + 1 ELSE 0)
        /\ \A j \in 1 .. i - i + 1 : part[j] = h[i + j - 1]
    BY <2>1, SubSeqProperties
  <2> HIDE DEF part
  <2>3. Len(part) = 1 /\ part[1] = x
    <3>1. 1 \in 1 .. i - i + 1 /\ i + 1 - 1 = i /\ i <= i /\ i - i + 1 = 1
      OBVIOUS
    <3> QED BY <2>2, <3>1
  <2> HIDE DEF x
  <2>4. one \in Seq(U) /\ Len(one) = 1 /\ one[1] = x
    BY <2>1
  <2> HIDE DEF one
  <2>5. part = one
    <3>1. \A j \in 1 .. 1 : part[j] = one[j]
      BY <2>3, <2>4
    <3> QED BY <2>2, <2>3, <2>4, <3>1, SeqEqual
  <2> QED BY <2>5 DEF part, one, x
<1>26. 1 \in 1 .. n /\ 3 \in 1 .. n /\ 5 \in 1 .. n
  BY <1>4
<1>27. SubSeq(h, 7, n) = s
  <2> DEFINE rest == SubSeq(h, 7, n)
  <2>1. \A i \in 7 .. n : h[i] \in U
    BY <1>1, <1>4
  <2>2. /\ rest \in Seq(U) /\ Len(rest) = (IF 7 <= n THEN n - 7 + 1 ELSE 0)
        /\ \A i \in 1 .. n - 7 + 1 : rest[i] = h[7 + i - 1]
    BY <1>4, <2>1, SubSeqProperties
  <2> HIDE DEF rest
  <2>3. Len(rest) = Len(s)
    BY <1>1, <1>4, <2>2
  <2>4. \A i \in 1 .. Len(rest) : rest[i] = s[i]
    <3> SUFFICES ASSUME NEW i \in 1 .. Len(rest) PROVE rest[i] = s[i]
      OBVIOUS
    <3>1. i \in 1 .. n - 7 + 1 /\ 7 + i - 1 = 6 + i /\ i \in 1 .. Len(s)
      BY <1>1, <1>4, <2>3
    <3> QED BY <1>3, <2>2, <3>1
  <2>5. rest = s
    BY <1>1, <2>2, <2>3, <2>4, SeqEqual
  <2> QED BY <2>5 DEF rest
<1>28. f[1] = <<"v1">> /\ f[2] = <<"7">> /\ f[3] = <<"s">> /\ f[4] = s
  BY <1>2, <1>24, <1>25, <1>26, <1>27
<1> QED BY <1>22, <1>23, <1>28 DEF h, s

\* The daemon finds the question and the context of the plugin in the file, and
\* understands every request with a question in it.
LEMMA RequestParsed ==
    ASSUME NEW T, NEW text \in Seq(T), NEW live \in {<<>>, Live}, NEW valid
    PROVE  LET parsed == ParseRequest(WriteRequest("7", "s", text, SessionContext(live)), valid)
               question == Strip(SanitizeLine(text))
           IN /\ question # <<>> => parsed # Nothing
              /\ parsed # Nothing =>
                    /\ parsed[3] = question
                    /\ parsed[4] = NormalizeContext(SessionContext(live), valid)
<1> DEFINE S == Seq(Alphabet(T))
           u == Upper(live)
           l == Lower(live)
           h == Header(text)
           c == SessionContext(live)
           first == <<h>>
           L == Append(u, l)
           M == first \o L
           lines == Append(M, End)
           file == WriteRequest("7", "s", text, c)
           fields == Fields(h)
           question == Strip(SanitizeLine(text))
<1>1. h \in S /\ End \in S /\ Seq(Tokens) \subseteq S /\ Seq(Seq(Tokens)) \subseteq Seq(S)
  <2>1. Tokens \subseteq Alphabet(T)
    BY DEF Alphabet
  <2>2. Seq(Tokens) \subseteq S
    BY <2>1, WiderSeq
  <2>3. h \in S /\ End \in Seq(Tokens)
    BY HeaderLine, TokenTypes
  <2> HIDE DEF S
  <2>4. Seq(Seq(Tokens)) \subseteq Seq(S)
    BY <2>2, WiderSeq
  <2> QED BY <2>2, <2>3, <2>4
<1>2. u \in Seq(S) /\ l \in S /\ u \in Seq(Seq(Tokens)) /\ l \in Seq(Tokens)
  BY <1>1, ContextLines
<1>3. Lines(file) = lines
  BY RequestRead DEF Request
<1>4. Join(L) = c
  BY <1>2, TokenTypes, JoinWritten, ContextText
<1>5. Strip(c) = c
  BY ContextStripped
<1>6. /\ Len(fields) = 4 /\ fields[1] = <<"v1">> /\ fields[3] = <<"s">>
      /\ fields[4] = SanitizeLine(text)
  BY HeaderFields
<1>7. Strip(fields[3]) # <<>>
  <2> DEFINE s == <<"s">>
             n == Len(s)
  <2>1. s \in Seq({"s"}) /\ s # <<>> /\ n = 1 /\ s[1] = "s"
    OBVIOUS
  <2>2. s[1] \notin PythonSpace /\ s[n] \notin PythonSpace
    BY <2>1 DEF PythonSpace, Space
  <2>3. fields[3] = s
    BY <1>6
  <2> HIDE DEF s, fields
  <2>4. StripSet(s, PythonSpace) = s
    BY <2>1, <2>2, StripNothing
  <2> QED BY <2>1, <2>3, <2>4 DEF Strip
<1> HIDE DEF S, u, l, h, c, fields, file, question
<1>8. /\ first \in Seq(S) /\ Len(first) = 1 /\ first[1] = h
  BY <1>1
<1>9. L \in Seq(S) /\ Len(L) = Len(u) + 1 /\ Len(u) \in Nat
  BY <1>2
<1> HIDE DEF first, L
<1>10. /\ M \in Seq(S) /\ Len(M) = Len(first) + Len(L)
       /\ \A i \in 1 .. Len(first) + Len(L) : M[i] =
                     IF i <= Len(first) THEN first[i] ELSE L[i - Len(first)]
  BY <1>8, <1>9, ConcatProperties
<1> HIDE DEF M
<1>11. /\ lines \in Seq(S) /\ Len(lines) = Len(M) + 1 /\ Len(M) \in Nat
       /\ lines[Len(M) + 1] = End
       /\ \A k \in 1 .. Len(M) : lines[k] = M[k]
  BY <1>1, <1>10
<1> HIDE DEF lines
<1> DEFINE n == Len(L)
<1>12. n \in Nat /\ n >= 1 /\ Len(M) = n + 1 /\ Len(lines) = n + 2
  BY <1>8, <1>9, <1>10, <1>11
<1>13. lines[1] = h
  <2>1. 1 \in 1 .. Len(first) + Len(L) /\ 1 <= Len(first) /\ 1 \in 1 .. Len(M)
    BY <1>8, <1>12
  <2> QED BY <1>8, <1>10, <1>11, <2>1
<1>14. \A i \in 1 .. n : lines[1 + i] = L[i]
  <2> SUFFICES ASSUME NEW i \in 1 .. n PROVE lines[1 + i] = L[i]
    OBVIOUS
  <2>1. 1 + i \in 1 .. Len(M) /\ 1 + i \in 1 .. Len(first) + Len(L)
        /\ ~(1 + i <= Len(first)) /\ (1 + i) - Len(first) = i
    BY <1>8, <1>10, <1>12
  <2> QED BY <1>10, <1>11, <2>1
<1>15. Last(lines) = End /\ Len(lines) >= 2 /\ lines # <<>>
  BY <1>11, <1>12 DEF Last
<1>16. SubSeq(lines, 2, Len(lines) - 1) = L
  <2> DEFINE m == Len(lines) - 1
             part == SubSeq(lines, 2, m)
  <2>1. m = n + 1 /\ m \in Int
    BY <1>12
  <2>2. \A i \in 2 .. m : lines[i] \in S
    BY <1>11, <1>12, <2>1
  <2>3. /\ part \in Seq(S) /\ Len(part) = (IF 2 <= m THEN m - 2 + 1 ELSE 0)
        /\ \A i \in 1 .. m - 2 + 1 : part[i] = lines[2 + i - 1]
    BY <2>1, <2>2, SubSeqProperties
  <2> HIDE DEF part
  <2>4. Len(part) = n
    BY <1>12, <2>1, <2>3
  <2>5. \A i \in 1 .. Len(part) : part[i] = L[i]
    <3> SUFFICES ASSUME NEW i \in 1 .. n PROVE part[i] = L[i]
      BY <2>4
    <3>1. i \in 1 .. m - 2 + 1 /\ 2 + i - 1 = 1 + i
      BY <1>12, <2>1
    <3> QED BY <1>14, <2>3, <3>1
  <2>6. part = L
    BY <1>9, <2>3, <2>4, <2>5, SeqEqual
  <2> QED BY <2>6 DEF part
<1> DEFINE parsed == ParseRequest(file, valid)
           all == <<fields[2], Strip(fields[3]), Strip(fields[4]),
                    NormalizeContext(Strip(Join(SubSeq(lines, 2, Len(lines) - 1))), valid)>>
<1>17. parsed = IF \/ Len(lines) < 2 \/ Last(lines) # <<"END">>
                   \/ Len(fields) # 4 \/ fields[1] # <<"v1">>
                   \/ Strip(fields[3]) = <<>> \/ Strip(fields[4]) = <<>>
                THEN Nothing ELSE all
  BY <1>3, <1>13 DEF ParseRequest, fields
<1>18. parsed = IF question = <<>> THEN Nothing ELSE all
  <2>1. ~(Len(lines) < 2)
    BY <1>12
  <2> HIDE DEF all
  <2> QED BY <1>6, <1>7, <1>15, <1>17, <2>1 DEF End, question
<1>19. all[3] = question /\ all[4] = NormalizeContext(c, valid) /\ all # Nothing
  BY <1>4, <1>5, <1>6, <1>16 DEF Nothing, question
<1> HIDE DEF all, parsed
<1>20. /\ question # <<>> => parsed # Nothing
       /\ parsed # Nothing => parsed[3] = question /\ parsed[4] = NormalizeContext(c, valid)
  BY <1>18, <1>19
<1> QED BY <1>20 DEF parsed, question, file, c

\* A single token that is no space stays.
LEMMA TokenStripped ==
    ASSUME NEW c, c \notin PythonSpace PROVE Strip(<<c>>) = <<c>>
<1> DEFINE s == <<c>>
           n == Len(s)
<1>1. s \in Seq({c}) /\ s # <<>> /\ n = 1 /\ s[1] = c
  OBVIOUS
<1> HIDE DEF s
<1>2. s[1] \notin PythonSpace /\ s[n] \notin PythonSpace
  BY <1>1
<1>3. StripSet(s, PythonSpace) = s
  BY <1>1, <1>2, StripNothing
<1> QED BY <1>3 DEF Strip, s

\* The metadata of a context without a snapshot is all of it.
LEMMA MetadataKept == NormalizeMetadata(SessionContext(<<>>)) = SessionContext(<<>>)
<1> DEFINE c == SessionContext(<<>>)
           S == Seq(Tokens)
           one == <<Mode>>
           lines == Append(one, Caps)
           stripped == [i \in DOMAIN Lines(Strip(c)) |-> Strip(Lines(Strip(c))[i])]
           kept == Keep(stripped, LAMBDA line : line # <<>>)
<1>1. Lines(c) = lines /\ Strip(c) = c
  BY ContextRead, ContextStripped DEF Upper, Lower
<1>2. lines = <<Mode, Caps>>
  <2>1. Mode \in S /\ Caps \in S
    BY TokenTypes
  <2> HIDE DEF S
  <2>2. one \in Seq(S)
    BY <2>1
  <2>3. one \o <<Caps>> = <<Mode, Caps>>
    BY JoinedPair
  <2> HIDE DEF one
  <2>4. lines = one \o <<Caps>>
    BY <2>1, <2>2, AppendIsConcat
  <2> QED BY <2>3, <2>4
<1>3. c = <<"mode", "\n", "caps">>
  <2>1. <<"mode", "\n", "caps">> \o <<>> = <<"mode", "\n", "caps">>
    <3> DEFINE top == <<"mode", "\n", "caps">>
    <3>1. top \in Seq(Tokens)
      BY DEF Tokens
    <3> HIDE DEF top
    <3>2. top \o <<>> = top
      BY <3>1, ConcatEmptySeq
    <3> QED BY <3>2 DEF top
  <2> QED BY <2>1 DEF SessionContext
<1> HIDE DEF c, lines
<1>4. stripped = lines
  <2>1. Strip(Mode) = Mode /\ Strip(Caps) = Caps
    BY TokenStripped DEF Mode, Caps, PythonSpace, Space
  <2> DEFINE pair == <<Mode, Caps>>
  <2>2. DOMAIN pair = 1 .. 2 /\ pair[1] = Mode /\ pair[2] = Caps /\ pair = [i \in 1 .. 2 |-> pair[i]]
    OBVIOUS
  <2> HIDE DEF pair
  <2>3. \A i \in 1 .. 2 : Strip(pair[i]) = pair[i]
    <3>1. \A i \in 1 .. 2 : i = 1 \/ i = 2
      OBVIOUS
    <3> QED BY <2>1, <2>2, <3>1
  <2>4. stripped = [i \in 1 .. 2 |-> Strip(pair[i])]
    BY <1>1, <1>2, <2>2 DEF pair
  <2>5. stripped = pair
    BY <2>2, <2>3, <2>4
  <2> QED BY <1>2, <2>5 DEF pair
<1>5. kept = lines
  <2> DEFINE T == {Mode, Caps}
             f == [i \in DOMAIN lines |-> IF lines[i] # <<>> THEN <<lines[i]>> ELSE <<>>]
             g == [i \in DOMAIN lines |-> IF lines[i] \in T THEN <<lines[i]>> ELSE <<>>]
  <2>1. lines \in Seq(T)
    BY <1>2
  <2>2. Selected(lines, T) = lines
    <3> HIDE DEF T
    <3> QED BY <2>1, SelectedAll
  <2>3. \A a \in T : a # <<>>
    BY DEF Mode, Caps
  <2>4. \A i \in DOMAIN lines : lines[i] \in T
    BY <2>1
  <2>5. f = g
    <3> HIDE DEF T
    <3>1. \A i \in DOMAIN lines : lines[i] \in T /\ lines[i] # <<>>
      BY <2>3, <2>4
    <3> QED BY <3>1
  <2>6. kept = FlattenSeq(f)
    BY <1>4 DEF Keep
  <2> HIDE DEF f
  <2>7. Selected(lines, T) = FlattenSeq(g)
    BY DEF Selected
  <2> HIDE DEF g
  <2> QED BY <2>2, <2>5, <2>6, <2>7
<1> HIDE DEF kept
<1>6. NormalizeMetadata(c) =
        CASE kept = <<Mode>> -> <<"mode">>
          [] kept \in {<<Mode, Caps>>, <<Caps, Mode>>} -> <<"mode", "\n", "caps">>
          [] OTHER -> <<>>
  BY DEF NormalizeMetadata, kept, Mode, Caps
<1>7. kept # <<Mode>>
  <2>1. Len(<<Mode, Caps>>) = 2 /\ Len(<<Mode>>) = 1
    OBVIOUS
  <2> QED BY <1>2, <1>5, <2>1
<1>8. kept \in {<<Mode, Caps>>, <<Caps, Mode>>}
  BY <1>2, <1>5
<1>9. NormalizeMetadata(c) = <<"mode", "\n", "caps">>
  BY <1>6, <1>7, <1>8
<1> QED BY <1>3, <1>9 DEF c

\* The lines of a context with a snapshot.
LEMMA LiveLines ==
    LET lines == Lines(SessionContext(Live)) IN
    /\ Len(lines) = 4 /\ DOMAIN lines = 1 .. 4
    /\ lines[1] = Mode /\ lines[2] = Caps /\ lines[3] = Mark /\ lines[4] = Live
<1> DEFINE S == Seq(Tokens)
           u == <<Mode, Caps, Mark>>
           lines == Append(u, Live)
<1>1. Lines(SessionContext(Live)) = lines
  BY ContextRead DEF Upper, Lower, Live
<1>2. Mode \in S /\ Caps \in S /\ Mark \in S /\ Live \in S
  BY TokenTypes
<1> HIDE DEF S
<1>3. u \in Seq(S) /\ Len(u) = 3 /\ u[1] = Mode /\ u[2] = Caps /\ u[3] = Mark
  BY <1>2
<1> HIDE DEF u
<1>0. /\ lines \in Seq(S) /\ Len(lines) = Len(u) + 1 /\ lines[Len(u) + 1] = Live
      /\ \A i \in 1 .. Len(u) : lines[i] = u[i]
  <2>1. u \in Seq(S)
    BY <1>3
  <2> QED BY <1>2, <2>1
<1> HIDE DEF lines
<1>4. /\ lines \in Seq(S) /\ Len(lines) = 4 /\ lines[4] = Live
      /\ \A i \in 1 .. 3 : lines[i] = u[i]
  BY <1>0, <1>3
<1>5. lines[1] = Mode /\ lines[2] = Caps /\ lines[3] = Mark
  BY <1>3, <1>4
<1>6. DOMAIN lines = 1 .. 4
  BY <1>4
<1> QED BY <1>1, <1>4, <1>5, <1>6

\* A context with a snapshot that the backend accepts is not changed.
LEMMA LiveKept ==
    ASSUME NEW valid, valid
    PROVE  NormalizeContext(SessionContext(Live), valid) = SessionContext(Live)
<1> DEFINE c == SessionContext(Live)
           none == SessionContext(<<>>)
           lines == Lines(c)
           marks == {i \in DOMAIN lines : lines[i] = <<"MARK">>}
           metadata == NormalizeMetadata(Join(SubSeq(lines, 1, Min(marks) - 1)))
<1>1. /\ Len(lines) = 4 /\ DOMAIN lines = 1 .. 4
      /\ lines[1] = Mode /\ lines[2] = Caps /\ lines[3] = Mark /\ lines[4] = Live
  BY LiveLines
<1>2. Mark = <<"MARK">> /\ Mode # <<"MARK">> /\ Caps # <<"MARK">> /\ Live # <<"MARK">>
  BY DEF Mode, Caps, Mark, Live
<1> HIDE DEF lines
<1>3. marks = {3}
  <2>1. \A i \in 1 .. 4 : i = 1 \/ i = 2 \/ i = 3 \/ i = 4
    OBVIOUS
  <2>2. 3 \in 1 .. 4
    OBVIOUS
  <2> QED BY <1>1, <1>2, <2>1, <2>2
<1> HIDE DEF marks
<1>4. Min(marks) = 3
  BY <1>3, MinBottom
<1>5. SubSeq(lines, 1, 2) = Append(<<Mode>>, Caps)
  <2> DEFINE S == Seq(Tokens)
             part == SubSeq(lines, 1, 2)
             one == <<Mode>>
             two == Append(one, Caps)
  <2>1. Mode \in S /\ Caps \in S
    BY TokenTypes
  <2> HIDE DEF S
  <2>2. \A i \in 1 .. 2 : lines[i] \in S
    <3>1. \A i \in 1 .. 2 : i = 1 \/ i = 2
      OBVIOUS
    <3> QED BY <1>1, <2>1, <3>1
  <2>3. /\ part \in Seq(S) /\ Len(part) = (IF 1 <= 2 THEN 2 - 1 + 1 ELSE 0)
        /\ \A i \in 1 .. 2 - 1 + 1 : part[i] = lines[1 + i - 1]
    BY <2>2, SubSeqProperties
  <2> HIDE DEF part
  <2>4. Len(part) = 2 /\ part[1] = Mode /\ part[2] = Caps
    BY <1>1, <2>3
  <2>5. one \in Seq(S) /\ Len(one) = 1 /\ one[1] = Mode
    BY <2>1
  <2> HIDE DEF one
  <2>9. /\ two \in Seq(S) /\ Len(two) = Len(one) + 1 /\ two[Len(one) + 1] = Caps
        /\ \A i \in 1 .. Len(one) : two[i] = one[i]
    <3>1. one \in Seq(S)
      BY <2>5
    <3> QED BY <2>1, <3>1
  <2> HIDE DEF two
  <2>6. two \in Seq(S) /\ Len(two) = 2 /\ two[1] = Mode /\ two[2] = Caps
    BY <2>5, <2>9
  <2>7. \A i \in 1 .. 2 : part[i] = two[i]
    <3>1. \A i \in 1 .. 2 : i = 1 \/ i = 2
      OBVIOUS
    <3> QED BY <2>4, <2>6, <3>1
  <2>8. part = two
    BY <2>3, <2>4, <2>6, <2>7, SeqEqual
  <2> QED BY <2>8 DEF part, two, one
<1>6. Join(Append(<<Mode>>, Caps)) = none
  <2> DEFINE one == <<Mode>>
  <2>1. one \in Seq(Seq(Tokens)) /\ Caps \in Seq(Tokens) /\ one = Upper(<<>>) /\ Caps = Lower(<<>>)
    BY ContextLines DEF Upper, Lower
  <2> HIDE DEF one
  <2>2. Join(Append(one, Caps)) = Written(one) \o Caps
    BY <2>1, TokenTypes, JoinWritten
  <2>3. none = Written(one) \o Caps
    BY <2>1, ContextText
  <2> QED BY <2>2, <2>3 DEF one
<1>7. metadata = none
  <2>1. Min(marks) - 1 = 2
    BY <1>4
  <2> QED BY <1>5, <1>6, <2>1, MetadataKept
<1>8. none # <<>>
  BY ContextEnds
<1> HIDE DEF metadata, none, c
<1>9. NormalizeContext(c, valid) = (metadata \o <<"\n">>) \o <<"MARK", "\n", "live">>
  <2>1. marks # {} /\ marks = {Len(lines) - 1} /\ lines[Len(lines)] = <<"live">> /\ valid
    BY <1>1, <1>3 DEF Live
  <2>2. metadata # <<>>
    BY <1>7, <1>8
  <2> QED BY <2>1, <2>2 DEF NormalizeContext, metadata, marks, lines
<1>10. <<"MARK", "\n", "live">> = Cat(Cat(Mark, Break), Live)
  <2>1. Mark \o Break = <<"MARK", "\n">>
    BY JoinedPair DEF Mark, Break
  <2>2. <<"MARK", "\n">> \o Live = <<"MARK", "\n", "live">>
    BY JoinedThree DEF Live
  <2> QED BY <2>1, <2>2 DEF Cat
<1>11. NormalizeContext(c, valid) = Cat(Cat(none, Break), Cat(Cat(Mark, Break), Live))
  BY <1>7, <1>9, <1>10 DEF Cat, Break
<1>12. c = Cat(none, Cat(Cat(Cat(Break, Mark), Break), Live))
  <2> DEFINE top == <<"mode", "\n", "caps">>
             bar == <<"\n", "MARK", "\n">>
  <2>1. Live # <<>>
    BY DEF Live
  <2>2. c = top \o (bar \o Live)
    BY <2>1 DEF SessionContext, c
  <2>3. top \in Seq(Tokens)
    BY DEF Tokens
  <2>4. bar = Cat(Cat(Break, Mark), Break)
    <3>1. Break \o Mark = <<"\n", "MARK">>
      BY JoinedPair DEF Mark, Break
    <3>2. <<"\n", "MARK">> \o Break = bar
      BY JoinedThree DEF Break
    <3> QED BY <3>1, <3>2 DEF Cat
  <2>5. none = top \o <<>>
    BY DEF SessionContext, none
  <2> HIDE DEF top, bar
  <2>6. none = top
    BY <2>3, <2>5, ConcatEmptySeq
  <2> QED BY <2>2, <2>4, <2>6 DEF Cat
<1>13. none \in Seq(Tokens)
  BY ContextEnds DEF none
<1> DEFINE N == Seq(Tokens)
           b == Break
           k == Mark
           l == Live
<1>14. /\ \A x, y \in N : Cat(x, y) \in N
       /\ \A x, y, z \in N : Cat(Cat(x, y), z) = Cat(x, Cat(y, z))
  <2>1. \A x, y \in N : Cat(x, y) \in N
    BY CatRegroup
  <2>2. \A x, y, z \in N : Cat(Cat(x, y), z) = Cat(x, Cat(y, z))
    BY CatRegroup
  <2> QED BY <2>1, <2>2
<1>15. b \in N /\ k \in N /\ l \in N /\ none \in N
  BY <1>13, TokenTypes
<1> HIDE DEF N, b, k, l
<1>16. Cat(Cat(none, b), Cat(Cat(k, b), l)) = Cat(none, Cat(Cat(Cat(b, k), b), l))
  <2> DEFINE kb == Cat(k, b)
             e == Cat(kb, l)
  <2>1. kb \in N
    BY <1>14, <1>15
  <2>2. Cat(Cat(b, k), b) = Cat(b, kb)
    BY <1>14, <1>15
  <2> HIDE DEF kb
  <2>3. e \in N /\ Cat(Cat(b, kb), l) = Cat(b, e)
    BY <1>14, <1>15, <2>1
  <2> HIDE DEF e
  <2>4. Cat(Cat(none, b), e) = Cat(none, Cat(b, e))
    BY <1>14, <1>15, <2>3
  <2> QED BY <2>2, <2>3, <2>4 DEF e, kb
<1> QED BY <1>11, <1>12, <1>16 DEF b, k, l, c

\* The snapshot is in it.
LEMMA LiveContained == Contains(SessionContext(Live), "live")
<1> DEFINE c == SessionContext(Live)
           w == Written(Upper(Live))
<1>1. Live # <<>>
  BY DEF Live
<1>2. c = w \o Live
  BY <1>1, ContextText DEF Lower
<1>3. w \in Seq(Tokens) /\ Live \in Seq(Tokens) /\ Len(Live) = 1 /\ Live[1] = "live"
  BY ContextLines, TokenTypes, WrittenAppend DEF Live
<1> HIDE DEF c, w
<1>0. /\ w \o Live \in Seq(Tokens) /\ Len(w \o Live) = Len(w) + Len(Live)
      /\ \A i \in 1 .. Len(w) + Len(Live) : (w \o Live)[i] =
                     IF i <= Len(w) THEN w[i] ELSE Live[i - Len(w)]
  <2>1. w \in Seq(Tokens) /\ Live \in Seq(Tokens)
    BY <1>3
  <2> QED BY <2>1, ConcatProperties
<1>4. /\ c \in Seq(Tokens) /\ Len(c) = Len(w) + 1
      /\ \A i \in 1 .. Len(w) + 1 : c[i] =
                     IF i <= Len(w) THEN w[i] ELSE Live[i - Len(w)]
  BY <1>0, <1>2, <1>3
<1>5. Len(w) + 1 \in DOMAIN c /\ c[Len(w) + 1] = "live"
  <2>1. Len(w) \in Nat
    BY <1>3
  <2>2. Len(w) + 1 \in 1 .. Len(w) + 1 /\ ~(Len(w) + 1 <= Len(w)) /\ (Len(w) + 1) - Len(w) = 1
    BY <2>1
  <2> QED BY <1>3, <1>4, <2>2
<1> QED BY <1>5 DEF Contains, c

---------------------------------------------------------------------------
(***************************************************************************)
(* The snapshot that is published                                          *)
(***************************************************************************)
\* What is published was captured in a world of the game.
PublishedInv ==
    /\ platform \in Platforms
    /\ published # Null =>
        /\ published.world \in Worlds[platform]
        /\ published.doc = Capture(published.world)

\* At first nothing is published.
LEMMA PublishedInit == Init => PublishedInv
BY DEF Init, ShotInit, PublishedInv

\* Only the sampler publishes, and it publishes what it captured of a world.
LEMMA PublishedStays == PublishedInv /\ [Next]_vars => PublishedInv'
<1> SUFFICES ASSUME PublishedInv, [Next]_vars PROVE PublishedInv'
  OBVIOUS
<1>1. platform' = platform
  BY PlatformStays
<1>2. CASE Sample
  <2>1. PICK w \in Worlds[platform] :
          published' = [world |-> w, doc |-> Capture(w), at |-> now]
    BY <1>2 DEF Sample
  <2>2. published'.world = w /\ published'.doc = Capture(w)
    BY <2>1
  <2> QED BY <1>1, <2>2 DEF PublishedInv
<1>3. CASE ~Sample
  <2>1. published' = published
    BY <1>3 DEF Next, Ask, Show, Read, Tick, Take, AskClaude, ClaudeAnswers, NoPicture,
                EndCapture, Publish, TakePicture, Desktop, vars
  <2> QED BY <1>1, <2>1 DEF PublishedInv
<1> QED BY <1>2, <1>3

\* So it is at any time.
LEMMA PublishedAlways == Spec => []PublishedInv
BY PublishedInit, PublishedStays, PTL DEF Spec

\* Whatever name a building has in a world of the game, and however many bytes of it
\* the plugin's limit leaves (SafeText, TruncateUtf8 and JsonString of
\* live_context.cpp), the JSON text that is published has no bare quote and no
\* control character in it, and the backend reads back whole characters that the name
\* begins with.
THEOREM NamesAreReadBack == Spec => []NamesReadBack
<1>1. PublishedInv => NamesReadBack
  <2> SUFFICES ASSUME PublishedInv,
                 published # Null, published.doc.available,
                 "target" \in DOMAIN published.doc.body,
                 published.doc.body["target"].actor # Null,
                 published.doc.body["target"].actor.building
      PROVE NamesReadBack
    BY DEF NamesReadBack
  <2> DEFINE w == published.world
             doc == published.doc
  <2>1. platform \in Platforms /\ w \in Worlds[platform] /\ doc = Capture(w)
    BY DEF PublishedInv
  <2> HIDE DEF w
  <2>2. doc.available /\ "target" \in DOMAIN doc.body /\ doc.body["target"].actor # Null
        /\ doc.body["target"].actor.building
    OBVIOUS
  <2>3. /\ Capture(w).available /\ "target" \in DOMAIN Capture(w).body
        /\ Capture(w).body["target"].actor # Null
        /\ Capture(w).body["target"].actor.building
    BY <2>1, <2>2
  <2>4. LET name == Capture(w).body["target"].actor.display
            shown == Capture(w).body["target"].display
            json == JsonString(shown)
        IN /\ \A i \in DOMAIN json : json[i] >= 32
           /\ \A i \in 2 .. Len(json) - 1 : json[i] = 34 => json[i - 1] = 92
           /\ Load(json) = shown
           /\ WellFormed(shown)
           /\ shown # <<>> => IsPrefix(shown, name) /\ Len(shown) <= MaxStringBytes
           /\ name # Null /\ shown # name /\ Len(name) < MaxTextCodeUnits =>
                Len(shown) + 3 >= MaxStringBytes
    BY <2>1, <2>3, NamesOfWorld
  <2> QED BY <2>1, <2>4 DEF NamesReadBack
<1> QED BY <1>1, PublishedAlways, PTL

\* Whatever the world holds and however long its sections are, what the published
\* snapshot does not show of a section, because its limit or the limit of the whole
\* text (Capture in live_context.cpp) left no room, is in the list of what is
\* missing or the list of what is cut: Claude is never given a part as the whole.
THEOREM OmissionsAreTold == Spec => []OmissionsAreListed
<1>1. PublishedInv => OmissionsAreListed
  <2> SUFFICES ASSUME PublishedInv, published # Null
      PROVE Omitted(published) \subseteq
                ToSet(published.doc.missing) \cup ToSet(published.doc.truncated)
    BY DEF OmissionsAreListed
  <2> DEFINE w == published.world
             live == published
  <2>1. platform \in Platforms /\ w \in Worlds[platform]
    BY DEF PublishedInv
  <2>2. live.world = w /\ live.doc = Capture(w)
    BY DEF PublishedInv
  <2> HIDE DEF w, live
  <2>3. Omitted(live) \subseteq ToSet(live.doc.missing) \cup ToSet(live.doc.truncated)
    BY <2>1, <2>2, OmissionsOfWorld
  <2> QED BY <2>3 DEF live
<1> QED BY <1>1, PublishedAlways, PTL

---------------------------------------------------------------------------
(***************************************************************************)
(* The question, and what Claude is asked                                  *)
(***************************************************************************)
\* A text without the space around it is a part of the text.
LEMMA StrippedPart ==
    ASSUME NEW T, NEW text \in Seq(T), NEW space PROVE StripSet(text, space) \in Seq(T)
<1> DEFINE n == Len(text)
           kept == {i \in DOMAIN text : text[i] \notin space}
<1>1. n \in Nat /\ DOMAIN text = 1 .. n
  OBVIOUS
<1>2. kept \in SUBSET (1 .. n)
  BY <1>1
<1>3. StripSet(text, space) = IF kept = {} THEN <<>> ELSE SubSeq(text, Min(kept), Max(kept))
  BY DEF StripSet
<1> HIDE DEF kept
<1>4. CASE kept = {}
  BY <1>3, <1>4
<1>5. CASE kept # {}
  <2> DEFINE a == Min(kept)
             b == Max(kept)
  <2>1. a \in kept
    BY <1>2, <1>5, MinExists
  <2>2. b \in kept
    <3>1. kept \in SUBSET Int /\ n \in Int /\ \A y \in kept : y <= n
      BY <1>1, <1>2
    <3> QED BY <1>5, <3>1, MaxExists
  <2>3. a \in 1 .. n /\ b \in 1 .. n
    BY <1>2, <2>1, <2>2
  <2> HIDE DEF a, b, n
  <2>4. SubSeq(text, a, b) \in Seq(T)
    BY <2>3 DEF n
  <2> QED BY <1>3, <1>5, <2>4 DEF a, b
<1> QED BY <1>4, <1>5

\* The snapshot and the text of a question stay what they were when it was sent, in
\* the request, in its file, in what is read of the file and in what Claude is asked.
LiveText(live) == IF live = Null THEN <<>> ELSE Live
IsOfWorld(live) ==
    live # Null => /\ live.world \in Worlds[platform] /\ live.doc = Capture(live.world)
                   /\ live.at \in 0 .. now
FileIsOf(r) ==
    r.state # "none" =>
        /\ IsArray(r.text)
        /\ r.file = WriteRequest("7", "s", r.text, SessionContext(LiveText(r.live)))
ParsedIsOf(r) ==
    r.state = "taken" =>
        /\ r.parsed[3] = Strip(SanitizeLine(r.text))
        /\ r.live # Null => r.parsed[4] = SessionContext(Live)
PromptIsOf(r) ==
    prompt # NoPrompt =>
        /\ r.state \in {"asked", "answered", "published", "shown", "lost"}
        /\ prompt.question = Strip(SanitizeLine(r.text))
        /\ prompt.live = r.live
        /\ prompt.live # Null =>
            (prompt.freshness = "fresh" <=> prompt.at - prompt.live.at <= FreshAge)
IsRequest(r) == DOMAIN r = DOMAIN NoRequest
SentInv ==
    /\ IsRequest(request) /\ IsOfWorld(request.live)
    /\ FileIsOf(request) /\ ParsedIsOf(request) /\ PromptIsOf(request)
QuestionInv == ExchangeInv /\ PublishedInv /\ SentInv

\* No question, no snapshot.
LEMMA NothingSent ==
    /\ IsRequest(NoRequest) /\ NoRequest.live = Null /\ NoRequest.state = "none"
    /\ ParsedIsOf(NoRequest) /\ FileIsOf(NoRequest)
BY DEF IsRequest, NoRequest, ParsedIsOf, FileIsOf

\* No question is asked yet.
LEMMA QuestionInit == Init => QuestionInv
<1> SUFFICES ASSUME Init PROVE SentInv
  BY ExchangeInit, PublishedInit DEF QuestionInv
<1>1. request = NoRequest /\ prompt = NoPrompt
  BY DEF Init
<1> QED BY <1>1, NothingSent DEF SentInv, IsOfWorld, PromptIsOf

\* A request that gets further is the same request.
LEMMA RequestAdvances ==
    ASSUME IsRequest(request), NEW s, Advance(s)
    PROVE  /\ IsRequest(request') /\ request'.state = s
           /\ request'.text = request.text /\ request'.live = request.live
           /\ request'.file = request.file /\ request'.parsed = request.parsed
BY DEF IsRequest, NoRequest, Advance

\* A request that is answered is the same request.
LEMMA RequestAnswered ==
    ASSUME IsRequest(request), NEW a, NEW b, NEW c, Pending(a, b, c)
    PROVE  /\ IsRequest(request') /\ request'.state = "answered"
           /\ request'.text = request.text /\ request'.live = request.live
           /\ request'.file = request.file
BY DEF IsRequest, NoRequest, Pending

\* Once Claude was asked, a request changes no more than its state.
LEMMA QuestionKept ==
    ASSUME QuestionInv, now' = now, platform' = platform, UNCHANGED prompt,
           IsRequest(request'), request.state # "none",
           request'.state \in {"ignored", "answered", "published", "shown", "lost"},
           request'.state = "ignored" => request.state = "sent",
           request'.text = request.text, request'.live = request.live,
           request'.file = request.file
    PROVE  SentInv'
<1>1. SentInv
  BY DEF QuestionInv
<1>2. IsOfWorld(request.live)'
  BY <1>1 DEF SentInv, IsOfWorld
<1>3. FileIsOf(request)'
  BY <1>1 DEF SentInv, FileIsOf
<1>4. ParsedIsOf(request)'
  BY DEF ParsedIsOf
<1>5. PromptIsOf(request)'
  BY <1>1 DEF SentInv, PromptIsOf
<1> QED BY <1>2, <1>3, <1>4, <1>5 DEF SentInv

\* Nothing that is done elsewhere changes it.
LEMMA QuestionLeft ==
    ASSUME QuestionInv, ExchangeInv', platform' = platform, UNCHANGED <<prompt, request>>,
           now' \in {now, now + 1}
    PROVE  SentInv'
<1>1. SentInv /\ now \in Nat
  BY DEF QuestionInv, ExchangeInv, ExchangeTypes
<1>2. IsOfWorld(request.live)'
  <2>1. \A at : at \in 0 .. now => at \in 0 .. now'
    BY <1>1
  <2> QED BY <1>1, <2>1 DEF SentInv, IsOfWorld
<1>3. /\ IsRequest(request)' /\ FileIsOf(request)' /\ ParsedIsOf(request)'
      /\ PromptIsOf(request)'
  BY <1>1 DEF SentInv, IsRequest, FileIsOf, ParsedIsOf, PromptIsOf
<1> QED BY <1>2, <1>3 DEF SentInv

\* What the plugin sends is of the snapshot that is published.
LEMMA QuestionAsked == ASSUME QuestionInv, Ask, platform' = platform PROVE SentInv'
<1>1. PICK q \in Questions[platform] :
        request' = [NoRequest EXCEPT !.state = "sent", !.text = Trim(q),
            !.live = published,
            !.file = WriteRequest("7", "s", Trim(q),
                SessionContext(IF published = Null THEN <<>> ELSE <<"live">>))]
  BY DEF Ask
<1>2. /\ IsRequest(request') /\ request'.state = "sent" /\ request'.text = Trim(q)
      /\ request'.live = published
      /\ request'.file = WriteRequest("7", "s", Trim(q), SessionContext(LiveText(published)))
  BY <1>1 DEF IsRequest, NoRequest, LiveText, Live
<1>3. IsArray(Trim(q))
  <2>1. platform \in Platforms
    BY DEF QuestionInv, PublishedInv
  <2>2. q \in Seq(ToSet(q))
    BY <2>1, QuestionsAssumption DEF IsArray
  <2> DEFINE T == ToSet(q)
             text == Trim(q)
  <2> HIDE DEF T
  <2>3. text \in Seq(T)
    BY <2>2, StrippedPart DEF Trim, T
  <2> HIDE DEF text
  <2>4. text \in Seq(ToSet(text))
    BY <2>3, RangeOf
  <2> QED BY <2>4 DEF IsArray, text
<1>4. request.state = "none" /\ prompt' = prompt /\ published' = published /\ now' = now
  BY DEF Ask
<1>5. FileIsOf(request)'
  BY <1>2, <1>3 DEF FileIsOf
<1>6. IsOfWorld(request.live)'
  BY <1>2, <1>4 DEF QuestionInv, PublishedInv, ExchangeInv, ExchangeTypes, IsOfWorld
<1>7. prompt = NoPrompt
  BY <1>4 DEF QuestionInv, SentInv, PromptIsOf
<1>8. ParsedIsOf(request)' /\ PromptIsOf(request)'
  BY <1>2, <1>4, <1>7 DEF ParsedIsOf, PromptIsOf
<1> QED BY <1>2, <1>5, <1>6, <1>8 DEF SentInv

\* The backend accepts the snapshot of a question at any time.
LEMMA LiveAccepted ==
    ASSUME QuestionInv, request.live # Null
    PROVE  Accepted(request.live) /\ FitsContext(request)
<1> DEFINE live == request.live
<1>1. /\ live.world \in Worlds[platform] /\ live.doc = Capture(live.world)
      /\ live.at \in 0 .. now /\ platform \in Platforms /\ now \in Nat
  BY DEF QuestionInv, PublishedInv, ExchangeInv, ExchangeTypes, SentInv, IsOfWorld
<1>2. live.at \in Nat /\ live.at <= now /\ live.world \in UNION {Worlds[q] : q \in Platforms}
  BY <1>1
<1> HIDE DEF live
<1>3. /\ ValidateLiveContext(Capture(live.world), live.at, now)
      /\ Capture(live.world).size + LabelBytes <= MaxContextBytes
  BY <1>1, <1>2, SnapshotAccepted
<1> QED BY <1>1, <1>3 DEF Accepted, FitsContext, live

\* What the daemon reads is what was sent.
LEMMA QuestionTaken == ASSUME QuestionInv, Take, platform' = platform PROVE SentInv'
<1> DEFINE valid == Accepted(request.live) /\ FitsContext(request)
           parsed == ParseRequest(request.file, valid)
<1>1. request.state = "sent" /\ UNCHANGED <<now, published, prompt>> /\ IsRequest(request)
  BY DEF Take, QuestionInv, SentInv
<1>2. CASE Advance("ignored")
  <2>1. /\ IsRequest(request') /\ request'.state = "ignored"
        /\ request'.text = request.text /\ request'.live = request.live
        /\ request'.file = request.file
    BY <1>1, <1>2, RequestAdvances
  <2> QED BY <1>1, <2>1, QuestionKept
<1>3. CASE ~Advance("ignored")
  <2>1. request' = [request EXCEPT !.state = "taken", !.parsed = parsed] /\ parsed # Nothing
    BY <1>3 DEF Take
  <2> HIDE DEF parsed
  <2>2. /\ IsRequest(request') /\ request'.state = "taken" /\ request'.parsed = parsed
        /\ request'.text = request.text /\ request'.live = request.live
        /\ request'.file = request.file
    BY <1>1, <2>1 DEF IsRequest, NoRequest
  <2>3. /\ IsArray(request.text)
        /\ request.file = WriteRequest("7", "s", request.text,
                                       SessionContext(LiveText(request.live)))
    BY <1>1 DEF QuestionInv, SentInv, FileIsOf
  <2>4. /\ parsed[3] = Strip(SanitizeLine(request.text))
        /\ parsed[4] = NormalizeContext(SessionContext(LiveText(request.live)), valid)
    <3> DEFINE text == request.text
               live == LiveText(request.live)
               T == ToSet(text)
    <3>1. text \in Seq(T) /\ live \in {<<>>, Live}
      BY <2>3 DEF IsArray, LiveText
    <3>2. parsed = ParseRequest(WriteRequest("7", "s", text, SessionContext(live)), valid)
      BY <2>3 DEF parsed
    <3> HIDE DEF text, live, T, valid
    <3>3. parsed[3] = Strip(SanitizeLine(text))
          /\ parsed[4] = NormalizeContext(SessionContext(live), valid)
      BY <2>1, <3>1, <3>2, RequestParsed
    <3> QED BY <3>3 DEF text, live
  <2>5. request.live # Null => parsed[4] = SessionContext(Live)
    <3> SUFFICES ASSUME request.live # Null PROVE parsed[4] = SessionContext(Live)
      OBVIOUS
    <3>1. valid
      BY LiveAccepted
    <3>2. LiveText(request.live) = Live
      BY DEF LiveText
    <3> HIDE DEF valid
    <3> QED BY <2>4, <3>1, <3>2, LiveKept
  <2>6. ParsedIsOf(request)'
    BY <2>2, <2>4, <2>5 DEF ParsedIsOf
  <2>7. FileIsOf(request)'
    BY <2>2, <2>3 DEF FileIsOf
  <2>8. IsOfWorld(request.live)'
    BY <1>1, <2>2 DEF QuestionInv, SentInv, IsOfWorld
  <2>9. prompt = NoPrompt
    BY <1>1 DEF QuestionInv, SentInv, PromptIsOf
  <2>10. PromptIsOf(request)'
    BY <1>1, <2>9 DEF PromptIsOf
  <2> QED BY <2>2, <2>6, <2>7, <2>8, <2>10 DEF SentInv
<1> QED BY <1>2, <1>3

\* What Claude is asked is what was read.
LEMMA ClaudeAsked == ASSUME QuestionInv, AskClaude, platform' = platform PROVE SentInv'
<1> DEFINE context == NormalizeContext(request.parsed[4], Accepted(request.live))
<1>1. /\ request.state = "taken" /\ Advance("asked") /\ UNCHANGED <<now, published>>
      /\ IsRequest(request)
      /\ prompt' = [shot |-> shot, question |-> request.parsed[3], at |-> now,
            live |-> IF Contains(context, "live") THEN request.live ELSE Null,
            freshness |-> IF Contains(context, "live")
                          THEN Freshness(request.live.at, now) ELSE ""]
  BY DEF AskClaude, QuestionInv, SentInv
<1>2. /\ IsRequest(request') /\ request'.state = "asked"
      /\ request'.text = request.text /\ request'.live = request.live
      /\ request'.file = request.file
  BY <1>1, RequestAdvances
<1>3. /\ request.parsed[3] = Strip(SanitizeLine(request.text))
      /\ request.live # Null => request.parsed[4] = SessionContext(Live)
  BY <1>1 DEF QuestionInv, SentInv, ParsedIsOf
<1>4. request.live # Null => Contains(context, "live")
  <2> SUFFICES ASSUME request.live # Null PROVE Contains(context, "live")
    OBVIOUS
  <2> DEFINE valid == Accepted(request.live)
  <2>1. valid
    BY LiveAccepted
  <2> HIDE DEF valid
  <2>2. NormalizeContext(SessionContext(Live), valid) = SessionContext(Live)
    BY <2>1, LiveKept
  <2>3. context = SessionContext(Live)
    BY <1>3, <2>2 DEF valid
  <2> QED BY <2>3, LiveContained
<1> HIDE DEF context
<1>5. /\ prompt'.question = request.parsed[3] /\ prompt'.live = request.live
      /\ prompt'.at = now
      /\ request.live # Null => prompt'.freshness = Freshness(request.live.at, now)
  BY <1>1, <1>4
<1>6. request.live # Null => request.live.at \in Nat /\ now \in Nat
  BY DEF QuestionInv, ExchangeInv, ExchangeTypes, SentInv, IsOfWorld
<1>7. request.live # Null =>
        (Freshness(request.live.at, now) = "fresh" <=> now - request.live.at <= FreshAge)
  BY <1>6 DEF Freshness, FreshAge
<1>8. PromptIsOf(request)'
  BY <1>2, <1>3, <1>5, <1>7 DEF PromptIsOf
<1>9. FileIsOf(request)' /\ ParsedIsOf(request)'
  BY <1>1, <1>2 DEF QuestionInv, SentInv, FileIsOf, ParsedIsOf
<1>10. IsOfWorld(request.live)'
  BY <1>1, <1>2 DEF QuestionInv, SentInv, IsOfWorld
<1> QED BY <1>2, <1>8, <1>9, <1>10 DEF SentInv

\* Every step of the exchange keeps all of that.
LEMMA QuestionStays == QuestionInv /\ [Next]_vars => QuestionInv'
<1> SUFFICES ASSUME QuestionInv, [Next]_vars PROVE SentInv'
  BY ExchangeStays, PublishedStays DEF QuestionInv
<1>1. platform' = platform /\ ExchangeInv' /\ IsRequest(request)
  BY PlatformStays, ExchangeStays DEF QuestionInv, SentInv
<1>2. CASE Ask
  BY <1>1, <1>2, QuestionAsked
<1>3. CASE Take
  BY <1>1, <1>3, QuestionTaken
<1>4. CASE AskClaude
  BY <1>1, <1>4, ClaudeAsked
<1>5. CASE Show
  <2>1. /\ request.state = "published" /\ UNCHANGED <<now, prompt>>
        /\ Advance("lost") \/ Advance("shown")
    BY <1>5 DEF Show
  <2> QED BY <1>1, <2>1, RequestAdvances, QuestionKept
<1>6. CASE Publish
  <2>1. request.state = "answered" /\ UNCHANGED <<now, prompt>> /\ Advance("published")
    BY <1>6 DEF Publish
  <2> QED BY <1>1, <2>1, RequestAdvances, QuestionKept
<1>7. CASE ClaudeAnswers \/ NoPicture
  <2>1. /\ request.state \in {"asked", "taken"} /\ UNCHANGED <<now, prompt>>
        /\ \E a, b, c : Pending(a, b, c)
    BY <1>7 DEF ClaudeAnswers, NoPicture
  <2> QED BY <1>1, <2>1, RequestAnswered, QuestionKept
<1>8. CASE Read
  <2>1. request' = NoRequest /\ prompt' = NoPrompt
    BY <1>8 DEF Read
  <2> QED BY <2>1, NothingSent DEF SentInv, IsOfWorld, PromptIsOf, FileIsOf, ParsedIsOf
<1>9. CASE Sample \/ Tick \/ EndCapture \/ TakePicture \/ Desktop \/ UNCHANGED vars
  <2>1. UNCHANGED <<prompt, request>> /\ now' \in {now, now + 1}
    BY <1>9 DEF Sample, Tick, EndCapture, TakePicture, Desktop, vars
  <2> QED BY <1>1, <2>1, QuestionLeft
<1> QED BY <1>2, <1>3, <1>4, <1>5, <1>6, <1>7, <1>8, <1>9 DEF Next

\* The steps of a capture, up to its end, are of that capture.
LEMMA CaptureKept ==
    ASSUME ShotTypeOK, EndCapture \/ TakePicture \/ Desktop PROVE capture'.id = capture.id
BY DEF EndCapture, TakePicture, Desktop, DaemonCaptures, ShotTypeOK, Goto, EnsureHelper,
       EnsureFails, StartHelper, OpenRaw, CaptureWorkspace, CaptureTimesOut, HelperReports,
       HelperFails, SaveImage, SaveFails, KWinFails, RunSpectacle, GrabWindows, ShotFound,
       CaptureFails, Discard, KWinWrites, SpectacleWrites, RetryTimePasses

\* The picture Claude is asked with is of the capture that was made for the question.
PictureIsOf == prompt # NoPrompt => prompt.shot = capture.id + 1
MomentInv == QuestionInv /\ ShotInv /\ PictureIsOf

\* No picture was taken yet.
LEMMA MomentInit == Init => MomentInv
<1> SUFFICES ASSUME Init PROVE PictureIsOf
  BY QuestionInit, ShotInitOwn DEF MomentInv, Init
<1> QED BY DEF Init, PictureIsOf

\* Claude is asked when the capture of the question has ended with a picture of its
\* own; that capture stays the last one until the answer was read.
LEMMA MomentStays == ASSUME ~LateSpectacle PROVE MomentInv /\ [Next]_vars => MomentInv'
<1> SUFFICES ASSUME MomentInv, [Next]_vars PROVE PictureIsOf'
  BY QuestionStays, ShotStep, ExchangeStep DEF MomentInv
<1>1. /\ PictureIsOf /\ ShotInv /\ ShotTypeOK
      /\ prompt # NoPrompt => request.state # "sent"
  BY DEF MomentInv, ShotInv, RawInv, ShotTypes, QuestionInv, SentInv, PromptIsOf
<1>2. CASE AskClaude
  <2>1. capture.pc = "ask" /\ prompt'.shot = shot /\ capture' = capture
    BY <1>2 DEF AskClaude, shotVars
  <2>2. shot = capture.id + 1
    BY <1>1, <2>1 DEF ShotInv, ShotIsOwn
  <2> QED BY <2>1, <2>2 DEF PictureIsOf
<1>3. CASE Read
  BY <1>3 DEF Read, PictureIsOf
<1>4. CASE Take
  <2>1. request.state = "sent" /\ prompt' = prompt
    BY <1>4 DEF Take
  <2>2. prompt = NoPrompt
    BY <1>1, <2>1
  <2> QED BY <2>1, <2>2 DEF PictureIsOf
<1>5. CASE ~AskClaude /\ ~Read /\ ~Take
  <2>1. prompt' = prompt
    BY <1>5 DEF Next, Sample, Ask, Show, Tick, ClaudeAnswers, NoPicture, EndCapture,
                Publish, TakePicture, Desktop, vars
  <2>2. capture'.id = capture.id
    <3>1. CASE EndCapture \/ TakePicture \/ Desktop
      BY <1>1, <3>1, CaptureKept
    <3>2. CASE ~(EndCapture \/ TakePicture \/ Desktop)
      BY <1>5, <3>2 DEF Next, Sample, Ask, Show, Tick, ClaudeAnswers, NoPicture,
                        Publish, vars, shotVars
    <3> QED BY <3>1, <3>2
  <2> QED BY <1>1, <2>1, <2>2 DEF PictureIsOf
<1> QED BY <1>2, <1>3, <1>4, <1>5

\* So it is at any time.
LEMMA QuestionAlways == Spec => []QuestionInv
BY QuestionInit, QuestionStays, PTL DEF Spec

\* Whatever the world is, whatever the player types and whenever the plugin samples,
\* Claude is asked with the snapshot that was published when the question was sent:
\* the limits of the plugin (live_context.cpp) are within those of the daemon
\* (parse_request, normalize_context, _validated_live_context), which never
\* drops it, and no line of the context is cut or lost on the way.
THEOREM SnapshotArrives == Spec => []SnapshotReachesClaude
<1>1. QuestionInv => SnapshotReachesClaude
  BY DEF QuestionInv, SentInv, PromptIsOf, SnapshotReachesClaude
<1> QED BY <1>1, QuestionAlways, PTL

\* Claude is asked what the player typed, no bar, backslash or new line of it taken
\* for one of the file's own (WriteRequest, parse_request), with the picture taken for
\* this question, and the snapshot is called fresh exactly when it is no older than the
\* limit at that moment, however long the capture took.  The theorem assumes that a
\* Spectacle that was given up writes nothing later (README, section 5).
THEOREM PromptIsCurrent == ASSUME ~LateSpectacle PROVE Spec => []PromptIsOfThisMoment
<1>1. MomentInv => PromptIsOfThisMoment
  BY DEF MomentInv, PictureIsOf, QuestionInv, SentInv, PromptIsOf, PromptIsOfThisMoment
<1>2. Spec => []MomentInv
  BY MomentInit, MomentStays, PTL DEF Spec
<1> QED BY <1>1, <1>2, PTL

\* Whatever is held and however it is named: unless the list of items was cut, the
\* amount the snapshot gives for a name is the sum over every item of that name, those
\* that the code came across twice or found in the store alone included
\* (BuildItemContainer of live_context.cpp).
THEOREM AmountsAreRight == Spec => []AmountsAreTrue
<1>1. PublishedInv => AmountsAreTrue
  <2> SUFFICES ASSUME PublishedInv, published # Null, published.doc.available,
                      published.doc.body["inventory"] # Null,
                      "inventory" \notin ToSet(published.doc.truncated),
                      NEW k \in DOMAIN published.doc.body["inventory"].items
      PROVE LET entry == published.doc.body["inventory"].items[k]
                held == published.world.player.inventory.held IN
            entry.amount =
                MapThenSumSet(LAMBDA i : held[i],
                    {i \in DOMAIN held : held[i] > 0 /\ ItemName(i) = entry.name})
    BY DEF AmountsAreTrue
  <2> DEFINE w == published.world
             doc == published.doc
             part == doc.body["inventory"]
             held == w.player.inventory.held
             S == {i \in DOMAIN held : held[i] > 0 /\ ItemName(i) = part.items[k].name}
  <2>1. platform \in Platforms /\ w \in Worlds[platform] /\ doc = Capture(w)
    BY DEF PublishedInv
  <2>2. doc.available /\ part # Null /\ "inventory" \notin ToSet(doc.truncated)
        /\ k \in DOMAIN part.items
    OBVIOUS
  <2> HIDE DEF w, doc
  <2>3. part.items[k].amount = Total(held, S)
    BY <2>1, <2>2, AmountsOfWorld
  <2>4. Total(held, S) = MapThenSumSet(LAMBDA i : held[i], S)
    BY DEF Total
  <2> QED BY <2>3, <2>4 DEF w, doc
<1> QED BY <1>1, PublishedAlways, PTL
===============================================================================
