------------------------------- MODULE Prompt -------------------------------
(***************************************************************************)
(* One question from the player's keyboard to Claude and back: the snapshot *)
(* that is published when the question is asked (Snapshot), the text of the *)
(* files it and its answer travel in (BridgeText), and the screenshot the   *)
(* daemon makes in between (Screenshot).  ChatBridge has what happens when  *)
(* several questions and answers are on their way; here there is one.       *)
(***************************************************************************)
EXTENDS Snapshot, BridgeText, Screenshot

CONSTANTS
    Worlds,             \* by platform: the games a sample may find
    Questions,          \* by platform: what the player may type
    Answers,            \* by platform: [advice, heading, sources] of Claude
    QuestionBytes,      \* 3 KiB: a question and the lines around it
    MaxContextBytes,    \* MAX_CONTEXT_BYTES (56 KiB)
    MaxRequestBytes,    \* MAX_REQUEST_BYTES (64 KiB)
    MaxNow              \* bound: the clock

ASSUME PromptAssumption ==
    /\ MaxNow \in Nat /\ MaxContextBytes \in Nat /\ MaxSources \in Nat /\ MaxResponseBytes \in Nat
    /\ MaxSnapshotBytes + LabelBytes <= MaxContextBytes

\* An array of the game, and a string of it.
IsArray(s) == s \in Seq(ToSet(s))
IsText(text) == text = Null \/ Utf8(text)

\* The item types of the game have names of their own, also when cut to the limit,
\* and a store lists every one that the player holds.
IsBag(inventory, store) ==
    inventory # Null /\ store # Null =>
        LET items == DOMAIN inventory.held IN
        /\ IsFiniteSet(items) /\ Null \notin items
        /\ store \in Seq(items \cup {Null})
        /\ inventory.held \in [items -> Nat]
        /\ \A i \in items :
            /\ Utf8(i.unique) /\ Utf8(i.name) /\ IsText(i.display)
            /\ ItemIdentity(i) # <<>>
            /\ \A j \in items : ItemIdentity(i) = ItemIdentity(j) => i = j
            /\ inventory.held[i] > 0 => i \in ToSet(store)

IsGame(game) ==
    /\ IsArray(game.players)
    /\ game.objectives # Null => IsArray(game.objectives)
    /\ game.corporations # Null => IsArray(game.corporations)
    /\ game.technology # Null =>
        IsArray(game.technology.buildings) /\ IsArray(game.technology.recipes)

ASSUME WorldsAssumption ==
    \A w \in UNION {Worlds[p] : p \in Platforms} :
        /\ IsBag(w.player.inventory, w.player.inventoryStore)
        /\ IsBag(w.player.gems, w.player.gemStore)
        /\ w.game # Null => IsGame(w.game)
        /\ w.controller.skills # Null => IsArray(w.controller.skills)
        /\ IsArray(w.controller.items)
        /\ \A actor \in {w.controller.interaction, w.controller.interactable,
                          w.controller.building, w.player.looking, w.player.aiming} \ {Null} :
            actor.building => IsText(actor.display)
        /\ \A part \in Core \cup Nested \cup {"inventory", "gems"} : w.size[part] \in Nat

ASSUME QuestionsAssumption == \A q \in UNION {Questions[p] : p \in Platforms} : IsArray(q)

\* What parse_structured_response accepts: no text has the mark of the sources in it,
\* and the heading and the labels, which are names of sites, are one line each.
IsTitle(text) ==
    IsArray(text) /\ Strip(text) # <<>> /\ ToSet(text) \cap {"\n", "\r", "SOURCES"} = {}

ASSUME AnswersAssumption ==
    \A said \in UNION {Answers[p] : p \in Platforms} :
        /\ IsArray(said.advice) /\ Strip(said.advice) # <<>>
        /\ "SOURCES" \notin ToSet(said.advice)
        /\ IsTitle(said.heading)
        /\ IsArray(said.sources) /\ Len(said.sources) <= MaxSources
        /\ \A label \in ToSet(said.sources) :
            IsTitle(label) /\ Strip(label) = label /\ label # <<"END">>

\* The names of the other sections are few and short: they fit, whatever is pruned.
ASSUME RoomAssumption ==
    \A w \in UNION {Worlds[p] : p \in Platforms} :
        w.pawn = "ready" => Fits(w, Prune(Whole(w, ReadSections(w))))

\* A section that was read is not a null pointer.
ASSUME NullAssumption ==
    \A w \in UNION {Worlds[p] : p \in Platforms} :
        \A k \in 1 .. 8 : ReadSections(w)[k].value # Null

VARIABLES
    now,        \* the clock of the machine
    published,  \* g_snapshot: Null or [world, doc, at]
    request,    \* the question and how far it has come
    prompt,     \* what Claude was asked
    answer,     \* answer.txt
    message     \* the message of the companion in the panel

vars == <<now, published, request, prompt, answer, message, shotVars>>

NoRequest == [state |-> "none", text |-> <<>>, live |-> Null, file |-> <<>>,
              parsed |-> <<>>, said |-> Null, status |-> <<>>, reply |-> <<>>]
NoPrompt == [shot |-> 0, question |-> <<>>, live |-> Null, freshness |-> "", at |-> 0]
NoMessage == [text |-> <<>>, heading |-> <<>>, sources |-> <<>>]

Init ==
    /\ ShotInit
    /\ now = 0 /\ published = Null
    /\ request = NoRequest /\ prompt = NoPrompt /\ answer = <<>> /\ message = NoMessage

Advance(state) == request' = [request EXCEPT !.state = state]

---------------------------------------------------------------------------
(***************************************************************************)
(* The plugin                                                              *)
(***************************************************************************)
\* The published snapshot is read when a question is asked; what is published
\* while one is under way makes no difference to it and is left out.
Sample ==
    /\ request.state = "none"
    /\ \E w \in Worlds[platform] :
        published' = [world |-> w, doc |-> Capture(w), at |-> now]
    /\ UNCHANGED <<now, request, prompt, answer, message, shotVars>>

Ask ==
    /\ request.state = "none"
    /\ capture.id < MaxCaptures[platform]
    /\ \E q \in Questions[platform] :
        /\ Trim(q) # <<>>
        /\ request' = [NoRequest EXCEPT !.state = "sent", !.text = Trim(q),
            !.live = published,
            !.file = WriteRequest("7", "s", Trim(q),
                SessionContext(IF published = Null THEN <<>> ELSE <<"live">>))]
    /\ UNCHANGED <<now, published, prompt, answer, message, shotVars>>

Show ==
    /\ request.state = "published"
    /\ LET response == ReadResponse(answer) IN
        IF response = Nothing THEN Advance("lost") /\ UNCHANGED message
        ELSE /\ Advance("shown")
             /\ message' = IF response[3] = <<"ok">> THEN SplitSources(response[4])
                           ELSE [NoMessage EXCEPT !.text = response[4]]
    /\ UNCHANGED <<now, published, prompt, answer, shotVars>>

\* The player reads the message, or that no response arrived within 210 seconds,
\* and may ask again.
Read ==
    /\ request.state \in {"shown", "lost"}
    /\ request' = NoRequest /\ prompt' = NoPrompt /\ message' = NoMessage
    /\ answer' = <<>>
    /\ UNCHANGED <<now, published, shotVars>>

\* Only the age of a snapshot depends on the clock.
Tick ==
    /\ now < MaxNow /\ published # Null
    /\ now' = now + 1
    /\ UNCHANGED <<published, request, prompt, answer, message, shotVars>>

---------------------------------------------------------------------------
(***************************************************************************)
(* The daemon                                                              *)
(***************************************************************************)
Accepted(live) ==
    /\ live # Null
    /\ ValidateLiveContext(live.doc, live.at, now)

FileBytes(r) == QuestionBytes + (IF r.live = Null THEN 0 ELSE r.live.doc.size)
FitsContext(r) == r.live # Null => r.live.doc.size + LabelBytes <= MaxContextBytes

\* read_request and parse_request; a request that is not understood is left.
Take ==
    /\ request.state = "sent" /\ capture.pc = "idle"
    /\ LET parsed == ParseRequest(request.file,
                                  Accepted(request.live) /\ FitsContext(request)) IN
        IF FileBytes(request) > MaxRequestBytes \/ parsed = Nothing
        THEN Advance("ignored") /\ UNCHANGED shotVars
        ELSE /\ request' = [request EXCEPT !.state = "taken", !.parsed = parsed]
             /\ BeginCapture
    /\ UNCHANGED <<now, published, prompt, answer, message>>

\* build_prompt: the snapshot is checked again, and its age is that of now.
AskClaude ==
    /\ request.state = "taken" /\ capture.pc = "ask"
    /\ LET context == NormalizeContext(request.parsed[4], Accepted(request.live)) IN
        prompt' = [shot |-> shot, question |-> request.parsed[3], at |-> now,
            live |-> IF Contains(context, "live") THEN request.live ELSE Null,
            freshness |-> IF Contains(context, "live")
                          THEN Freshness(request.live.at, now) ELSE ""]
    /\ Advance("asked")
    /\ UNCHANGED <<now, published, answer, message, shotVars>>

Pending(status, said, reply) ==
    request' = [request EXCEPT !.state = "answered", !.said = said, !.status = status,
                               !.reply = reply]

\* Claude answers, or the answer is not valid, or there is none.
ClaudeAnswers ==
    /\ request.state = "asked"
    /\ \/ \E a \in Answers[platform] :
            Pending(<<"ok">>, a, RenderAnswer(a.advice, a.heading, a.sources))
       \/ Pending(<<"error">>, Null, <<"failed">>)
    /\ UNCHANGED <<now, published, prompt, answer, message, shotVars>>

NoPicture ==
    /\ request.state = "taken" /\ capture.pc = "error"
    /\ Pending(<<"error">>, Null, <<"failed">>)
    /\ UNCHANGED <<now, published, prompt, answer, message, shotVars>>

\* The picture goes before the answer is published.
EndCapture ==
    /\ request.state = "answered"
    /\ Discard
    /\ UNCHANGED <<now, published, request, prompt, answer, message>>

Publish ==
    /\ request.state = "answered" /\ capture.pc = "idle"
    /\ answer' = WriteAnswer("7", "s", request.status[1], request.reply,
                             platform = "windows")
    /\ Advance("published")
    /\ UNCHANGED <<now, published, prompt, message, shotVars>>

TakePicture ==
    /\ DaemonCaptures
    /\ UNCHANGED <<now, published, request, prompt, answer, message>>

\* What KWin and Spectacle do in their own time.
Desktop ==
    /\ KWinWrites \/ SpectacleWrites \/ RetryTimePasses
    /\ UNCHANGED <<now, published, request, prompt, answer, message>>

Next ==
    \/ Sample \/ Ask \/ Show \/ Read \/ Tick
    \/ Take \/ AskClaude \/ ClaudeAnswers \/ NoPicture \/ EndCapture \/ Publish
    \/ TakePicture \/ Desktop

\* Every wait of the daemon ends: for the helper, for Spectacle, for the file
\* and for Claude there is a time limit; the plugin polls every 200 ms.
Exchange == Take \/ AskClaude \/ ClaudeAnswers \/ Publish \/ Show

\* ENABLED Exchange, written out: TLC would compute the texts to evaluate it.
CanExchange ==
    \/ request.state \in {"sent", "answered"} /\ capture.pc = "idle"
    \/ request.state = "taken" /\ capture.pc = "ask"
    \/ request.state \in {"asked", "published"}

Fairness ==
    /\ WF_vars(TakePicture) /\ WF_vars(NoPicture) /\ WF_vars(EndCapture)
    /\ []<>~CanExchange \/ []<><<Exchange>>_vars       \* WF_vars(Exchange)

Spec == Init /\ [][Next]_vars /\ Fairness

---------------------------------------------------------------------------
TypeOK ==
    /\ ShotTypeOK
    /\ now \in 0 .. MaxNow
    /\ published # Null => published.world \in Worlds[platform] /\ published.at \in 0 .. now
    /\ request.state \in {"none", "sent", "ignored", "taken", "asked", "answered",
                          "published", "shown", "lost"}
    /\ prompt.shot \in 0 .. MaxCaptures[platform] + 2

\* What Claude is asked belongs together: a whole picture made for this question
\* (not of an earlier one, not one KWin has yet to finish or that a capture given
\* up before writes into), the player's words, the snapshot that was published
\* when they were sent, and a label that calls it fresh only if it is (README:
\* "the current screenshot", "labels every accepted snapshot as fresh or stale").
PromptIsOfThisMoment ==
    prompt # NoPrompt =>
        /\ prompt.shot = capture.id + 1
        /\ prompt.question = Strip(SanitizeLine(request.text))
        /\ prompt.live \in {Null, request.live}
        /\ prompt.live # Null =>
            (prompt.freshness = "fresh" <=> prompt.at - prompt.live.at <= FreshAge)

\* A snapshot the plugin publishes passes both checks of the backend, however
\* large the world is: its size, its lists of sections, its lists of items.
SnapshotReachesClaude == prompt # NoPrompt => prompt.live = request.live

\* The player sees what Claude said, with the sources as pills, whatever line
\* ends the answer has and whichever system the daemon runs on, and no answer is
\* lost but one whose file is larger than the plugin reads (bridge.cpp:181): the
\* daemon has no limit for what it writes.
Visible(text) == Keep(text, LAMBDA c : c \notin {"\r", "[", "]"})
AnswerArrives ==
    /\ request.state = "lost" => Len(answer) > MaxResponseBytes
    /\ request.state = "shown" /\ request.said # Null =>
        /\ Visible(message.text) = Visible(Strip(request.said.advice))
        /\ message.sources = request.said.sources
        /\ request.said.sources # <<>> =>
            Visible(message.heading) = Visible(Strip(request.said.heading))

---------------------------------------------------------------------------
(***************************************************************************)
(* What a snapshot promises of the world it was taken of                   *)
(***************************************************************************)
Holds(inventory, store) ==
    IF inventory = Null \/ store = Null THEN {}
    ELSE {i \in ToSet(store) \ {Null} : inventory.held[i] > 0 /\ ItemName(i) # <<>>}

Named(list) == {list[k].name : k \in DOMAIN list}

Researched(entries) == {TechnologyName(e) : e \in ToSet(entries) \ {Null}} \ {<<>>}

Active(w) == Keep(w.game.objectives, LAMBDA o : o.state = "active")

\* The section is there and shows all that the world has to say in it.
Complete(w, section, part) ==
    CASE section = "inventory" -> \A i \in Holds(w.player.inventory, w.player.inventoryStore) :
                                    ItemName(i) \in Named(part.items)
      [] section = "gems" -> \A i \in Holds(w.player.gems, w.player.gemStore) :
                                    ItemName(i) \in Named(part.items)
      [] section = "session" -> Len(part.closest) = Len(Others(w.game.players, w.local))
      [] section = "progression" ->
            /\ w.controller.skills # Null => part.skills = w.controller.skills
            /\ w.game.corporations # Null =>
                \A c \in ToSet(w.game.corporations) :
                    c.hidden \/ c \in ToSet(part.corporations)
            /\ w.game.technology # Null =>
                /\ Researched(w.game.technology.buildings) \subseteq ToSet(part.technology[1])
                /\ Researched(w.game.technology.recipes) \subseteq ToSet(part.technology[2])
      [] section = "objectives" ->
            /\ Len(part.active) = Len(Active(w))
            /\ \A k \in DOMAIN part.active : part.active[k].subs = Active(w)[k].subs
      [] section = "target" ->
            part.actor # Null /\ part.actor = w.controller.interaction =>
                \A i \in ToSet(w.controller.items) :
                    ItemName(i) = <<>> \/ i \in ToSet(part.items)
      [] OTHER -> TRUE

Omitted(live) ==
    IF ~live.doc.available THEN ToSet(AllSections)
    ELSE {section \in Nested \cup {"inventory", "gems"} :
            \/ section \notin DOMAIN live.doc.body
            \/ live.doc.body[section] = Null
            \/ ~Complete(live.world, section, live.doc.body[section])}

\* README: "Missing or unavailable sections remain null and are listed explicitly,
\* so the model is not encouraged to invent zeroes".  A section that shows less
\* than there is, because of a limit or because the snapshot was too large, is
\* listed too; a pruned snapshot lists all it has lost.
OmissionsAreListed ==
    published # Null =>
        Omitted(published) \subseteq
            ToSet(published.doc.missing) \cup ToSet(published.doc.truncated)

\* The amount of an item is what the player holds, once, however many stacks and
\* entries it is spread over, and whatever other item shows the same name.
AmountsAreTrue ==
    published # Null /\ published.doc.available
    /\ published.doc.body["inventory"] # Null
    /\ "inventory" \notin ToSet(published.doc.truncated) =>
        \A k \in DOMAIN published.doc.body["inventory"].items :
            LET entry == published.doc.body["inventory"].items[k]
                held == published.world.player.inventory.held IN
            entry.amount =
                MapThenSumSet(LAMBDA i : held[i],
                    {i \in DOMAIN held : held[i] > 0 /\ ItemName(i) = entry.name})

\* json.loads of a string; escape is what has been read of an escape sequence.
Digit(h) == IF h < 58 THEN h - 48 ELSE h - 87
Unescape(c) == CHOOSE s \in DOMAIN Short : Short[s] = c

LoadStep(acc, c) ==
    LET n == Len(acc.escape) IN
    CASE n = 0 /\ c = 92 -> [text |-> acc.text, escape |-> <<c>>]
      [] n = 0 /\ c # 92 -> [text |-> Append(acc.text, c), escape |-> <<>>]
      [] n = 1 /\ c # 117 -> [text |-> Append(acc.text, Unescape(c)), escape |-> <<>>]
      [] n \in 1 .. 4 /\ (n > 1 \/ c = 117) ->
            [text |-> acc.text, escape |-> Append(acc.escape, c)]
      [] OTHER -> [text |-> Append(acc.text, 16 * Digit(acc.escape[5]) + Digit(c)),
                   escape |-> <<>>]
Load(json) ==
    FoldLeft(LoadStep, [text |-> <<>>, escape |-> <<>>],
             SubSeq(json, 2, Len(json) - 1)).text

\* A name of the game, cut to its limit and written as JSON, is one line, and the
\* backend reads back as many whole characters of it as there is room for.
NamesReadBack ==
    published # Null /\ published.doc.available /\ "target" \in DOMAIN published.doc.body
    /\ published.doc.body["target"].actor # Null
    /\ published.doc.body["target"].actor.building =>
        LET name == published.doc.body["target"].actor.display
            shown == published.doc.body["target"].display
            json == JsonString(shown)
        IN /\ \A i \in DOMAIN json : json[i] >= 32
           /\ \A i \in 2 .. Len(json) - 1 : json[i] = 34 => json[i - 1] = 92
           /\ Load(json) = shown
           /\ WellFormed(shown)
           /\ shown # <<>> => IsPrefix(shown, name) /\ Len(shown) <= MaxStringBytes
           /\ name # Null /\ shown # name /\ Len(name) < MaxTextCodeUnits => Len(shown) + 3 >= MaxStringBytes

---------------------------------------------------------------------------
\* Every question that is sent is answered and the answer shown, or it is the one
\* that AnswerArrives leaves to be lost: the daemon understands the question,
\* whatever the player typed and the game's texts contain, and none of its waits is
\* without end, also where KWin, Spectacle or Claude never answer.
QuestionIsAnswered == request.state = "sent" ~> request.state \in {"shown", "lost"}
=============================================================================
