------------------------------ MODULE Sections ------------------------------
(***************************************************************************)
(* What one sample reads of the game: an operator for each function of      *)
(* live_context.cpp that writes a section of the snapshot.  Objects of the  *)
(* game are records and arrays are sequences; Null is a null pointer.  A    *)
(* value that is copied without a decision (a count, a flag, the name of an *)
(* enumerator) is left out.  Text is a sequence of bytes.  A controller that *)
(* is a null pointer is a record whose fields are Null.                     *)
(***************************************************************************)
EXTENDS Lists

CONSTANTS
    Null, NotFinite,            \* a null pointer, an infinite number or NaN
    MaxInventorySlots,          \* 256
    MaxInventoryItems,          \* 128
    MaxPlayers,                 \* 64, in BuildSession
    MaxReplicatedPlayers,       \* 8
    MaxEntries,                 \* 512, in BuildObjectives
    MaxObjectives,              \* 32
    MaxSubObjectives,           \* 64
    MaxInteractedItems,         \* 32
    MaxTechnologyEntries,       \* 64
    MaxDefinitions,             \* 1024, in FindObjectiveDefinition
    MaxRows,                    \* 16 skills, 16 corporations, in BuildProgression
    MaxTextCodeUnits,           \* 4096
    MaxStringBytes              \* 128

ASSUME SectionsAssumption ==
    {MaxInventorySlots, MaxInventoryItems, MaxPlayers, MaxReplicatedPlayers, MaxEntries,
     MaxObjectives, MaxSubObjectives, MaxInteractedItems, MaxTechnologyEntries,
     MaxDefinitions, MaxRows, MaxTextCodeUnits, MaxStringBytes} \subseteq Nat

---------------------------------------------------------------------------
(***************************************************************************)
(* Text                                                                    *)
(***************************************************************************)
Byte == 0 .. 255
Continuation == 128 .. 191

\* How many bytes of a character follow the first one.
Follow(lead) == CASE lead < 128 -> 0 [] lead \in 192 .. 223 -> 1
                  [] lead \in 224 .. 239 -> 2 [] OTHER -> 3

\* UTF-8 without a cut character.
WellFormed(text) ==
    \A i \in DOMAIN text : text[i] \notin Continuation =>
        /\ i + Follow(text[i]) <= Len(text)
        /\ \A j \in i + 1 .. i + Follow(text[i]) : text[j] \in Continuation

\* What FString::ToString makes of a string of the game: bytes of characters.
Utf8(text) ==
    /\ text \in Seq(Byte) /\ WellFormed(text)
    /\ \A i \in DOMAIN text : text[i] \in Continuation =>
        \E j \in 1 .. 3 :
            j < i /\ text[i - j] \notin Continuation /\ j <= Follow(text[i - j])

\* Mutant of TruncateUtf8: the limit may fall inside a character.
TruncateBytes(value, limit) == Cut(value, limit)

TruncateUtf8(value, limit) ==
    IF Len(value) <= limit THEN value
    ELSE SubSeq(value, 1, Max({0} \cup
            {end \in 1 .. limit : value[end + 1] \notin Continuation}))

Hex(digit) == IF digit < 10 THEN 48 + digit ELSE 87 + digit

Short == [c \in {8, 9, 10, 12, 13, 34, 92} |->      \* \b \t \n \f \r \" \\
    CASE c = 8 -> 98 [] c = 9 -> 116 [] c = 10 -> 110 [] c = 12 -> 102
      [] c = 13 -> 114 [] OTHER -> c]

EscapeQuotes(c) == IF c = 34 THEN <<92, c>> ELSE <<c>>      \* mutant of Escape

Escape(c) ==
    CASE c \in DOMAIN Short -> <<92, Short[c]>>
      [] c \notin DOMAIN Short /\ c < 32 ->
            <<92, 117, 48, 48, Hex(c \div 16), Hex(c % 16)>>
      [] OTHER -> <<c>>

JsonString(value) ==
    <<34>> \o FlattenSeq([i \in DOMAIN value |-> Escape(value[i])]) \o <<34>>

\* A number is written only when it is finite.
AddNumbers(numbers) == {n \in DOMAIN numbers : numbers[n] # NotFinite}

SafeText(text) ==
    IF text = Null \/ Len(text) + 1 > MaxTextCodeUnits THEN <<>>
    ELSE TruncateUtf8(text, MaxStringBytes)

FirstNonEmpty(names) ==
    LET n == SelectInSeq(names, LAMBDA name : name # <<>>) IN
    IF n = 0 THEN <<>> ELSE names[n]

ItemName(item) ==
    FirstNonEmpty(<<SafeText(item.display),
                    TruncateUtf8(item.unique, MaxStringBytes),
                    TruncateUtf8(item.name, MaxStringBytes)>>)

\* The order of std::string, in which a std::map is read.
Before(a, b) ==
    \E n \in 0 .. Len(a) :
        /\ n < Len(b) /\ SubSeq(a, 1, n) = SubSeq(b, 1, n)
        /\ n = Len(a) \/ a[n + 1] < b[n + 1]

---------------------------------------------------------------------------
(***************************************************************************)
(* The player                                                              *)
(***************************************************************************)
Unavailable == [available |-> FALSE, truncated |-> FALSE]

BuildVitals(player) ==
    [group \in {g \in DOMAIN player.attributes : player.attributes[g] # Null}
        |-> AddNumbers(player.attributes[group])]

BuildEquipment(player) ==
    IF player.weapon = Null THEN {}
    ELSE {"weapon"} \cup (IF player.weaponComponent THEN {"ammo"} ELSE {})

\* The name an item type is told apart by.
ItemIdentity(item) ==
    FirstNonEmpty(<<TruncateUtf8(item.unique, MaxStringBytes),
                    TruncateUtf8(item.name, MaxStringBytes)>>)

EveryStack(read) == DOMAIN read         \* mutant of FirstOfType: no seenItemTypes
\* The entries of the store that show an item type for the first time.
FirstOfType(read) ==
    {n \in DOMAIN read :
        /\ ItemIdentity(read[n]) # <<>> /\ ItemName(read[n]) # <<>>
        /\ \A m \in 1 .. n - 1 : ItemIdentity(read[m]) # ItemIdentity(read[n])}

ReadStore(store) == Keep(Cut(store, MaxInventorySlots), LAMBDA i : i # Null)

\* inventory.held is BP_GetItemAmount: all the player holds of an item type.
Counted(inventory, read) == {n \in FirstOfType(read) : inventory.held[read[n]] > 0}

\* The keys of the std::map of the amounts, and its values.
ItemNames(inventory, read) ==
    InOrder({ItemName(read[n]) : n \in Counted(inventory, read)}, Before)
ItemAmount(inventory, read, name) ==
    MapThenSumSet(LAMBDA n : inventory.held[read[n]],
                  {n \in Counted(inventory, read) : ItemName(read[n]) = name})

BuildItemContainer(inventory, store) ==
    IF inventory = Null \/ store = Null THEN Unavailable
    ELSE LET
        read == ReadStore(store)
        names == ItemNames(inventory, read)
    IN [available |-> TRUE,
        truncated |-> \/ Len(inventory.slots) > MaxInventorySlots
                      \/ Len(store) > MaxInventorySlots
                      \/ Len(names) > MaxInventoryItems,
        stacks |-> Cardinality(ToSet(Cut(inventory.slots, MaxInventorySlots)) \ {0}),
        items |-> [k \in DOMAIN Cut(names, MaxInventoryItems) |->
                    [name |-> names[k],
                     amount |-> ItemAmount(inventory, read, names[k])]]]

BuildInventory(player) == BuildItemContainer(player.inventory, player.inventoryStore)
BuildGems(player) == BuildItemContainer(player.gems, player.gemStore)

---------------------------------------------------------------------------
(***************************************************************************)
(* The session, the progression and the objectives                         *)
(***************************************************************************)
\* Players other than the local one that are replicated here.
Others(players, local) == Keep(players, LAMBDA p : p.character \notin {Null, local})

\* The nearest of them.
Closest(players, local) ==
    Cut(Sorted(Others(players, local), LAMBDA p, q : p.distance < q.distance),
        MaxReplicatedPlayers)

BuildSession(game, local) ==
    IF game = Null THEN Unavailable
    ELSE LET others == Others(Cut(game.players, MaxPlayers), local)
    IN [available |-> TRUE,
        truncated |-> Len(game.players) > MaxPlayers
                        \/ Len(others) > MaxReplicatedPlayers,
        closest |-> Closest(Cut(game.players, MaxPlayers), local)]

TechnologyName(entry) ==
    FirstNonEmpty(<<SafeText(entry.display), TruncateUtf8(entry.name, MaxStringBytes)>>)

AddTechnology(names, entry) ==
    IF entry = Null \/ TechnologyName(entry) = <<>> \/ Contains(names, TechnologyName(entry))
    THEN names ELSE Append(names, TechnologyName(entry))

\* Both overloads; only the first of equal names is kept.
TechnologyNames(entries) ==
    FoldLeft(AddTechnology, <<>>, Cut(entries, MaxTechnologyEntries))

BuildProgression(game, controller) ==
    IF game = Null THEN Unavailable
    ELSE LET rows(array) == IF array = Null THEN <<>> ELSE array
             technology == IF game.technology = Null THEN <<<<>>, <<>>>>
                           ELSE <<game.technology.buildings, game.technology.recipes>>
    IN [available |-> TRUE,
        truncated |-> \/ Len(rows(controller.skills)) > MaxRows
                      \/ Len(rows(game.corporations)) > MaxRows
                      \/ Len(technology[1]) > MaxTechnologyEntries
                      \/ Len(technology[2]) > MaxTechnologyEntries,
        missing |-> {s \in {"skills"} : controller.skills = Null}
            \cup {s \in {"corporations"} : game.corporations = Null}
            \cup {s \in {"technology"} : game.technology = Null},
        skills |-> Cut(rows(controller.skills), MaxRows),
        corporations |-> Keep(Cut(rows(game.corporations), MaxRows), LAMBDA c : ~c.hidden),
        technology |-> <<TechnologyNames(technology[1]), TechnologyNames(technology[2])>>]

\* The first row of the table of definitions with the id of an objective; an
\* index without a row is Null, and only rows count.
FindObjectiveDefinition(table, id) ==
    LET rows == IF table = Null THEN <<>> ELSE Keep(table, LAMBDA row : row # Null)
        n == SelectInSeq(rows, LAMBDA row : row.id = id)
    IN IF Len(rows) > MaxDefinitions \/ n = 0 THEN Null ELSE rows[n]

NeverLost(acc, o) == FALSE              \* mutant of SubsLost
SubsLost(acc, o) == o.subs > acc.remaining

AddObjective(acc, o) ==
    CASE o.state = "completed" -> [acc EXCEPT !.completedCount = @ + 1]
      [] o.state = "active" /\ Len(acc.active) >= MaxObjectives ->
            [acc EXCEPT !.activeCount = @ + 1, !.truncated = TRUE]
      [] o.state = "active" /\ Len(acc.active) < MaxObjectives ->
            LET subs == IF o.subs > acc.remaining THEN acc.remaining ELSE o.subs
                row == FindObjectiveDefinition(acc.table, o.id)
            IN [acc EXCEPT
                !.activeCount = @ + 1,
                !.truncated = @ \/ SubsLost(acc, o),
                !.remaining = @ - subs,
                !.active = Append(@, [id |-> o.id, subs |-> subs,
                    title |-> IF row = Null THEN <<>> ELSE SafeText(row.title)])]
      [] OTHER -> acc

BuildObjectives(game) ==
    IF game = Null \/ game.objectives = Null THEN Unavailable
    ELSE FoldLeft(AddObjective,
                  [available |-> TRUE, truncated |-> Len(game.objectives) > MaxEntries,
                   activeCount |-> 0, completedCount |-> 0,
                   remaining |-> MaxSubObjectives, active |-> <<>>,
                   table |-> game.definitions],
                  Cut(game.objectives, MaxEntries))

---------------------------------------------------------------------------
(***************************************************************************)
(* The surroundings                                                        *)
(***************************************************************************)
BuildEnvironment(waves, game) ==
    [available |-> waves # Null \/ game # Null, truncated |-> FALSE]

BuildBase(game) ==
    [available |-> game # Null /\ (game.baseHelper # Null \/ game.mapHelper # Null),
     truncated |-> FALSE]

\* The first of five pointers that is not null; only the actor the player
\* interacts with is listed with its items.  No target is an answer too.
BuildTarget(player, controller) ==
    LET candidates == <<controller.interaction, controller.interactable,
                        controller.building, player.looking, player.aiming>>
        first == SelectInSeq(candidates, LAMBDA t : t # Null)
    IN IF first = 0 THEN [available |-> TRUE, truncated |-> FALSE, actor |-> Null]
       ELSE LET target == candidates[first]
                interacts == controller.interaction = target
                named(item) == ItemName(item) # <<>>
       IN [available |-> TRUE,
           truncated |-> interacts /\ Len(controller.items) > MaxInteractedItems,
           actor |-> target,
           display |-> IF target.building THEN SafeText(target.display) ELSE <<>>,
           items |-> IF interacts
                     THEN Keep(Cut(controller.items, MaxInteractedItems), named)
                     ELSE <<>>]
=============================================================================
