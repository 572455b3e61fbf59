------------------------------ MODULE Snapshot ------------------------------
(***************************************************************************)
(* A snapshot from the game to the backend: Capture in live_context.cpp     *)
(* puts the sections together and prunes what is too large, and             *)
(* validate_live_context in ai_backend.py decides whether the model is      *)
(* shown it.                                                               *)
(***************************************************************************)
EXTENDS Sections

CONSTANTS
    MaxSnapshotBytes,   \* 48 KiB at both ends
    MaxNormalizedBytes, \* 49 KiB: what the backend adds to a snapshot fits too
    MaxItems            \* MAX_LIVE_COLLECTION_ITEMS (256)

Nested == {"session", "progression", "objectives", "environment", "target", "base"}
AllSections == <<"player", "inventory", "gems", "equipment", "session", "progression",
                 "objectives", "environment", "target", "base">>

---------------------------------------------------------------------------
(***************************************************************************)
(* Capture                                                                 *)
(***************************************************************************)
AppendName(sections, name) == Append(sections, name)    \* mutant of AddSectionName
AddSectionName(sections, name) ==
    IF Contains(sections, name) THEN sections ELSE Append(sections, name)

BuildUnavailableSnapshot(reason) ==
    [available |-> FALSE, partial |-> TRUE, reason |-> reason,
     missing |-> AllSections, truncated |-> <<>>, body |-> <<>>, size |-> 0]

\* The sections in the order in which Capture reads them.
ReadSections(w) ==
    <<[name |-> "inventory", value |-> BuildInventory(w.player)],
      [name |-> "gems", value |-> BuildGems(w.player)],
      [name |-> "objectives", value |-> BuildObjectives(w.game)],
      [name |-> "environment", value |-> BuildEnvironment(w.waves, w.game)],
      [name |-> "target", value |-> BuildTarget(w.player, w.controller)],
      [name |-> "base", value |-> BuildBase(w.game)],
      [name |-> "session", value |-> BuildSession(w.game, w.local)],
      [name |-> "progression", value |-> BuildProgression(w.game, w.controller)]>>

AddMissing(names, section) ==
    IF section.value.available THEN names ELSE AddSectionName(names, section.name)
Missing(sections) == FoldLeft(AddMissing, <<>>, sections)

AddTruncated(names, section) ==
    IF section.value.truncated THEN AddSectionName(names, section.name) ELSE names
Truncated(sections) == FoldLeft(AddTruncated, <<>>, sections)

\* A value that is not available is written as null.
Value(sections, name) ==
    LET s == sections[SelectInSeq(sections, LAMBDA x : x.name = name)] IN
    IF s.value.available THEN s.value ELSE Null

\* The length of a JSON text: w.size is the length of each part that is written.
Bytes(w, parts) == MapThenSumSet(LAMBDA part : w.size[part], parts)
Size(w, body) == Bytes(w, {part \in DOMAIN body : body[part] # Null})
Fits(w, body) == Size(w, body) <= MaxSnapshotBytes

Core == {"vitals", "equipment"}
Whole(w, sections) ==
    [part \in Core \cup Nested \cup {"inventory", "gems"} |->
        CASE part = "vitals" -> BuildVitals(w.player)
          [] part = "equipment" -> BuildEquipment(w.player)
          [] OTHER -> Value(sections, part)]

Unlisted == <<"inventory", "gems", "progression">>      \* mutant of Pruned
\* What is written as null in a snapshot that is too large.
Pruned == <<"inventory", "gems", "progression", "objectives">>

Listed(truncated) == FoldLeft(AddSectionName, truncated, Pruned)

KeepBoth(body) == [body EXCEPT !["gems"] = Null]        \* mutant of Prune
Prune(body) ==
    [part \in DOMAIN body |->
        IF part \in {"inventory", "gems", "progression", "objectives"} THEN Null
        ELSE body[part]]

\* The body that is written, and how much was left out of it.
Fit(w, whole) ==
    LET core == [part \in Core |-> whole[part]] IN
    CASE Fits(w, whole) -> <<whole, "whole">>
      [] ~Fits(w, whole) /\ Fits(w, Prune(whole)) -> <<Prune(whole), "pruned">>
      [] OTHER -> <<core, "minimal">>

Capture(w) ==
    IF w.pawn # "ready" THEN BuildUnavailableSnapshot(w.pawn)
    ELSE LET sections == ReadSections(w)
             missing == Missing(sections)
             fit == Fit(w, Whole(w, sections))
             truncated == IF fit[2] = "whole" THEN Truncated(sections)
                          ELSE Listed(Truncated(sections))
    IN [available |-> TRUE,
        partial |-> fit[2] # "whole" \/ missing # <<>> \/ truncated # <<>>,
        reason |-> IF fit[2] = "whole" THEN "" ELSE "snapshot_pruned",
        missing |-> missing, truncated |-> truncated, body |-> fit[1],
        size |-> Size(w, fit[1])]
---------------------------------------------------------------------------
(***************************************************************************)
(* What the backend accepts                                                *)
(***************************************************************************)
ValidSectionList(list) ==
    /\ Len(list) <= 32
    /\ ToSet(list) \subseteq ToSet(AllSections)
    /\ Len(list) = Cardinality(ToSet(list))

ItemLists(body) ==
    {body[part].items : part \in
        {p \in DOMAIN body \cap {"inventory", "gems", "target"} :
            body[p] # Null /\ "items" \in DOMAIN body[p]}}

FutureTolerance == 2        \* FUTURE_LIVE_CONTEXT_TOLERANCE_MS, 10 s
FreshAge == 1               \* FRESH_LIVE_CONTEXT_MS, 5 s
LabelBytes == 1             \* less than 1 KiB: the freshness label

\* The limits of the backend leave room for what the plugin's limits let through.
ASSUME SnapshotAssumption ==
    /\ {MaxSnapshotBytes, MaxNormalizedBytes, MaxItems} \subseteq Nat
    /\ MaxSnapshotBytes + LabelBytes <= MaxNormalizedBytes
    /\ MaxInventoryItems <= MaxItems /\ MaxInteractedItems <= MaxItems

ValidateLiveContext(s, capturedAt, now) ==
    /\ s.size <= MaxSnapshotBytes /\ s.size + LabelBytes <= MaxNormalizedBytes
    /\ \A list \in ItemLists(s.body) : Len(list) <= MaxItems
    /\ ValidSectionList(s.missing) /\ ValidSectionList(s.truncated)
    /\ s.partial = (s.missing # <<>> \/ s.truncated # <<>>)
    /\ capturedAt <= now + FutureTolerance

Freshness(capturedAt, now) ==
    IF capturedAt + FreshAge >= now THEN "fresh" ELSE "stale"
=============================================================================
