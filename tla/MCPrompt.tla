------------------------------ MODULE MCPrompt ------------------------------
(***************************************************************************)
(* Games with every limit of the snapshot reached, scaled down: a game that *)
(* is played on, and others that differ from it in one respect or two.      *)
(***************************************************************************)
EXTENDS Prompt

Parts == Nested \cup {"vitals", "equipment", "inventory", "gems"}
Small == [part \in Parts |-> 2]

\* Items: two types with the same name, and types without a unique name; an
\* object has always a name of its own.
Ore == [unique |-> <<65>>, name |-> <<97>>, display |-> <<79>>]
Ingot == [unique |-> <<66>>, name |-> <<98>>, display |-> <<79>>]
Plate == [unique |-> <<>>, name |-> <<99>>, display |-> Null]
Blank == [unique |-> <<>>, name |-> <<101>>, display |-> <<80>>]
Scrap == [unique |-> <<68>>, name |-> <<100>>, display |-> <<83>>]
Held == (Ore :> 5) @@ (Ingot :> 2) @@ (Plate :> 1) @@ (Scrap :> 0) @@ (Blank :> 4)
\* The player holds what the store lists, except the scrap it lists still.
Bag(slots, store) ==
    [slots |-> slots,
     held |-> [i \in DOMAIN Held |-> IF i \in ToSet(store) \ {Null} THEN Held[i] ELSE 0]]
Stores == {<<>>, <<Ore, Ingot, Ore>>, <<Scrap, Plate, Blank, Ore>>, <<Null, Plate, Scrap>>, <<Ore, Plate, Ingot, Ore>>,
           <<Ore, Ore, Ore, Ore, Plate>>}

Player(character, distance) == [character |-> character, distance |-> distance]
Sessions == {<<>>, <<Player("me", 0)>>,
    <<Player("a", 3), Player("me", 0), Player("b", 2), Player(Null, 0)>>,
    <<Player("a", 3), Player("b", 1), Player("c", 2), Player("me", 0)>>,
    <<Player("a", 4), Player("b", 3), Player("c", 2), Player("d", 1), Player("me", 0)>>}

Task(id, state, subs) == [id |-> id, state |-> state, subs |-> subs]
Tasks == {<<>>,
    <<Task(1, "active", 1), Task(2, "completed", 9), Task(3, "active", 2)>>,
    <<Task(1, "active", 2), Task(2, "active", 2)>>,
    <<Task(1, "active", 0), Task(2, "active", 1), Task(3, "active", 0), Task(4, "hidden", 0)>>,
    <<Task(1, "completed", 0), Task(2, "hidden", 0), Task(3, "hidden", 0), Task(4, "hidden", 0),
      Task(5, "active", 1)>>}
Row(id, title) == [id |-> id, title |-> title]
Tables == {Null, <<>>, <<Null, Row(1, <<84>>)>>, <<Row(1, Null), Row(2, <<>>), Row(3, <<84>>)>>}

Entry(display, name) == [display |-> display, name |-> name]
Entries == {<<>>, <<Entry(<<70>>, <<102>>), Null, Entry(<<70>>, <<103>>)>>,
            <<Entry(Null, <<102>>), Entry(<<71>>, <<>>), Entry(<<72>>, <<>>)>>}

Actor(name) == [building |-> TRUE, display |-> name]
Creature == [building |-> FALSE, display |-> Null]
Euro == <<226, 130, 172>>
Names == {Null, <<>>, <<34, 92, 110>>, <<92, 34, 10, 1, 31>>, Euro, <<65>> \o Euro,
          <<65, 66, 67>> \o Euro, Euro \o Euro, <<240, 159, 154, 128>> \o <<65>>,
          <<195, 169, 195, 169, 195, 169>>, [n \in 1 .. 9 |-> 65]}

Home == [
    pawn |-> "ready",
    player |-> [attributes |-> ("health" :> [current |-> 1, max |-> NotFinite])
                                @@ ("heat" :> Null),
                weapon |-> Ore, weaponComponent |-> TRUE,
                inventory |-> Bag(<<1, 1>>, <<Ore, Plate>>), inventoryStore |-> <<Ore, Plate>>,
                gems |-> Bag(<<>>, <<>>), gemStore |-> <<>>, looking |-> Null, aiming |-> Null],
    game |-> [players |-> <<Player("me", 0), Player("a", 1)>>,
              objectives |-> <<Task(1, "active", 1)>>, definitions |-> <<Row(1, <<84>>)>>,
              corporations |-> <<[id |-> 1, hidden |-> FALSE]>>,
              technology |-> [buildings |-> <<Entry(<<70>>, <<102>>)>>, recipes |-> <<>>],
              baseHelper |-> "helper", mapHelper |-> Null],
    controller |-> [interaction |-> Null, interactable |-> Null, building |-> Null,
                    items |-> <<>>, skills |-> <<1>>],
    waves |-> "waves", local |-> "me", size |-> Small]

NoController == [interaction |-> Null, interactable |-> Null, building |-> Null,
                 items |-> <<>>, skills |-> Null]

Fill(store) == [Home EXCEPT !.player.inventory = Bag(<<1, 1, 0, 2>>, store),
                            !.player.inventoryStore = store]
Bags == {Fill(store) : store \in Stores}
    \cup {[Home EXCEPT !.player.inventory = Bag(<<1, 2, 3, 4, 5>>, <<Ore, Plate>>)],
          [Home EXCEPT !.player.inventoryStore = Null], [Home EXCEPT !.player.gems = Null]}
Games == {[Home EXCEPT !.game.players = p] : p \in Sessions}
    \cup {[Home EXCEPT !.game.objectives = o] : o \in Tasks \cup {Null}}
    \cup {[Home EXCEPT !.game.definitions = t] : t \in Tables}
    \cup {[Home EXCEPT !.game.technology.buildings = e] : e \in Entries}
    \cup {[Home EXCEPT !.game.technology.recipes = e] : e \in Entries}
    \cup {[Home EXCEPT !.game.technology = Null]}
    \cup {[Home EXCEPT !.game.corporations = c, !.controller.skills = s] :
            c \in {Null, <<[id |-> 1, hidden |-> TRUE], [id |-> 2, hidden |-> FALSE],
                           [id |-> 3, hidden |-> FALSE]>>},
            s \in {Null, <<1, 2, 3>>}}
    \cup {[Home EXCEPT !.game.baseHelper = b] : b \in {Null}}
Targets == {[Home EXCEPT !.player.looking = Actor(n)] : n \in Names}
    \cup {[Home EXCEPT !.controller.interaction = Actor(<<65>>), !.controller.items = items,
                       !.player.aiming = Creature] :
            items \in {<<>>, <<Ore>>, <<Ore, Plate>>}}
    \cup {[Home EXCEPT !.controller.building = Creature, !.player.looking = Actor(<<65>>)]}
Nowhere == {[Home EXCEPT !.game = Null, !.controller = NoController, !.waves = w] :
                w \in {Null, "waves"}}
    \cup {[Home EXCEPT !.pawn = p] : p \in {"world_unavailable", "local_player_unavailable",
                                           "local_player_initializing"}}
\* No other section has room for 48 KiB: their names are few and short.
Large == {[w EXCEPT !.size["inventory"] = a, !.size["objectives"] = b] :
            w \in {Home, Fill(<<Ore, Plate, Ore, Ore, Ore>>),
                   [Home EXCEPT !.game.objectives = Null],
                   [Home EXCEPT !.player.gems = Null]},
            a \in {31, 40}, b \in {2, 12}}

AllWorlds == {Home} \cup Bags \cup Games \cup Targets \cup Nowhere \cup Large
MCWorlds == [p \in Platforms |->
    CASE p = "windows" -> AllWorlds [] p = "linux" -> {Home} [] p = "kde" -> {}]

\* An ordinary question, one with the marks of the protocol in it after a space
\* that only Python takes for one, and one that is empty.
MCQuestions == [p \in Platforms |->
    IF p = "windows"
    THEN {<<"a">>, <<" ", "nbsp", "a", "|", "b", "\n", "END", "\r", "\n", "MARK", "\n">>, <<" ", "\n">>}
    ELSE {<<"a">>}]

Said(advice, sources) == [advice |-> advice, heading |-> <<"h">>, sources |-> sources]
Long(n) == Said([k \in 1 .. n |-> "a"], <<>>)
MCAnswers == [p \in Platforms |->
    IF p = "kde" THEN {Said(<<"a">>, <<<<"s">>>>)}
    ELSE {Said(<<"\n", "a", "\n", "END">>, <<>>),
          Said(<<"a", "\r", "\n", "\n", "b", " ">>, <<<<"s">>, <<"t">>, <<"u">>>>),
          Said(<<"END", "\n", "|">>, <<<<"s">>>>), Long(27)}
        \cup (IF p = "linux" THEN {Long(26)} ELSE {})]

MCCaptures == [p \in Platforms |-> IF p = "windows" THEN 1 ELSE 2]

Reply(width, height, stride, format) ==
    [width |-> width, height |-> height, stride |-> stride, format |-> format,
     complete |-> TRUE]
\* A good one, one whose size does not fit 32 bits, ones that are not safe.
MCReplies == {Reply(1, 2, 4, 4), Reply(1, 4, 9, 4), Reply(2, 1, 4, 4), Reply(1, 1, 4, 7),
              NoInfo}
=============================================================================
