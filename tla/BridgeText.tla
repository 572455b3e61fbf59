----------------------------- MODULE BridgeText -----------------------------
(***************************************************************************)
(* The text of the bridge files, which BridgeFiles abstracts from: what     *)
(* bridge.cpp and plugin.cpp write is what daemon.py and ai_backend.py read *)
(* and the reverse.  A text is a sequence of tokens: single characters, or  *)
(* a string that the protocol treats as one, "END" (__RC_END__), "MARK"     *)
(* (__RC_LIVE_CONTEXT_V1__), "SOURCES" (__RC_SOURCES_V1__), "live" (the JSON *)
(* of a snapshot, without line breaks) and "nbsp" (a space for Python only). *)
(***************************************************************************)
EXTENDS Lists

CONSTANTS
    MaxSources,         \* source pills of a message (3)
    MaxResponseBytes    \* 256 KiB: the plugin reads no larger answer.txt

Nothing == <<>>
Space == {" ", "\n", "\r"}                  \* std::isspace
PythonSpace == Space \cup {"nbsp"}          \* str.strip

StripSet(text, space) ==
    LET kept == {i \in DOMAIN text : text[i] \notin space} IN
    IF kept = {} THEN <<>> ELSE SubSeq(text, Min(kept), Max(kept))

Trim(text) == StripSet(text, Space)
Strip(text) == StripSet(text, PythonSpace)

KeepReturn(line) == line                    \* mutant of Chomp
Chomp(line) == IF line # <<>> /\ Last(line) = "\r" THEN Front(line) ELSE line

AddToken(lines, c) ==
    IF c = "\n" THEN Append(lines, <<>>) ELSE Append(Front(lines), Append(Last(lines), c))

\* std::getline and the split in _protocol_lines: a line break at the end
\* starts no line, and a line loses one carriage return at its end.
Lines(text) ==
    LET split == FoldLeft(AddToken, <<<<>>>>, text)
        lines == IF Last(split) = <<>> THEN Front(split) ELSE split
    IN [i \in DOMAIN lines |-> Chomp(lines[i])]

\* The lines of a text, joined.
Join(lines) ==
    FlattenSeq([i \in DOMAIN lines |->
        IF i = 1 THEN lines[i] ELSE <<"\n">> \o lines[i]])

\* The fields of a header: at most n, the last one holds what is left.
Split(text, separator, n) ==
    LET bars == {i \in DOMAIN text : text[i] = separator}
        at == InOrder(bars, <)
        cuts == SubSeq(at, 1, IF Len(at) < n - 1 THEN Len(at) ELSE n - 1)
        first(k) == IF k = 1 THEN 1 ELSE cuts[k - 1] + 1
        last(k) == IF k > Len(cuts) THEN Len(text) ELSE cuts[k] - 1
    IN [k \in 1 .. Len(cuts) + 1 |-> SubSeq(text, first(k), last(k))]
\* The header of a request, whose last field is the question.
Fields(header) == Split(header, "|", 4)

---------------------------------------------------------------------------
(***************************************************************************)
(* The request                                                             *)
(***************************************************************************)
RawLine(value) == value                     \* mutant of SanitizeLine
SanitizeLine(value) ==
    [i \in DOMAIN value |-> IF value[i] \in {"\n", "\r"} THEN " " ELSE value[i]]

SanitizeContext(value) ==
    Join([i \in DOMAIN Lines(value) |->
        IF Lines(value)[i] = <<"END">> THEN <<"[", "END", "]">> ELSE Lines(value)[i]])

SessionContext(live) ==
    <<"mode", "\n", "caps">>
        \o (IF live = <<>> THEN <<>> ELSE <<"\n", "MARK", "\n">> \o live)

WriteRequest(sequence, session, text, context) ==
    <<"v1", "|", sequence, "|", session, "|">> \o SanitizeLine(text) \o <<"\n">>
        \o (IF SanitizeContext(context) = <<>> THEN <<>>
            ELSE SanitizeContext(context) \o <<"\n">>)
        \o <<"END", "\n">>

NormalizeMetadata(text) ==
    LET stripped == [i \in DOMAIN Lines(Strip(text)) |-> Strip(Lines(Strip(text))[i])]
        lines == Keep(stripped, LAMBDA line : line # <<>>)
    IN CASE lines = <<<<"mode">>>> -> <<"mode">>
         [] lines \in {<<<<"mode">>, <<"caps">>>>, <<<<"caps">>, <<"mode">>>>} ->
                <<"mode", "\n", "caps">>
         [] OTHER -> <<>>

\* valid: the backend accepts the snapshot.
NormalizeContext(context, valid) ==
    LET lines == Lines(context)
        marks == {i \in DOMAIN lines : lines[i] = <<"MARK">>}
        metadata == NormalizeMetadata(Join(SubSeq(lines, 1, Min(marks) - 1)))
    IN CASE marks = {} -> NormalizeMetadata(context)
         [] marks = {Len(lines) - 1} /\ lines[Len(lines)] = <<"live">> /\ valid ->
                (IF metadata = <<>> THEN <<>> ELSE metadata \o <<"\n">>)
                    \o <<"MARK", "\n", "live">>
         [] OTHER -> metadata

ParseRequest(file, valid) ==
    LET lines == Lines(file)
        fields == Fields(lines[1])
    IN IF \/ Len(lines) < 2 \/ Last(lines) # <<"END">>
          \/ Len(fields) # 4 \/ fields[1] # <<"v1">>
          \/ Strip(fields[3]) = <<>> \/ Strip(fields[4]) = <<>>
       THEN Nothing
       ELSE <<fields[2], Strip(fields[3]), Strip(fields[4]),
              NormalizeContext(Strip(Join(SubSeq(lines, 2, Len(lines) - 1))), valid)>>

---------------------------------------------------------------------------
(***************************************************************************)
(* The answer                                                              *)
(***************************************************************************)
\* The text of a structured answer, with the labels of its sources below it.
RenderAnswer(advice, heading, sources) ==
    Strip(advice) \o (IF sources = <<>> THEN <<>>
                      ELSE <<"\n", "\n", "SOURCES", "\n">> \o Strip(heading)
                        \o FlattenSeq([i \in DOMAIN sources |-> <<"\n">> \o sources[i]]))

SafeAnswer(text) == SanitizeContext(Strip(text))

\* write_text translates line breaks where the daemon runs on Windows.
WriteAnswer(sequence, session, status, text, windows) ==
    LET file == <<"v1", "|", sequence, "|", session, "|", status, "\n">>
                    \o SafeAnswer(text) \o <<"\n", "END", "\n">>
        translate(c) == IF windows /\ c = "\n" THEN <<"\r", "\n">> ELSE <<c>>
    IN FlattenSeq([i \in DOMAIN file |-> translate(file[i])])

ParseResponse(file) ==
    LET lines == Lines(file)
        fields == Split(lines[1], "|", Len(lines[1]) + 1)
        text == Join(SubSeq(lines, 2, Len(lines) - 1))
    IN IF \/ lines = <<>>
          \/ Len(fields) # 4 \/ fields[1] # <<"v1">> \/ fields[3] = <<>>
          \/ fields[4] \notin {<<"ok">>, <<"error">>}
          \/ Len(lines) < 2 \/ Last(lines) # <<"END">> \/ text = <<>>
       THEN Nothing
       ELSE <<fields[2], fields[3], fields[4], text>>

\* The size of a file is counted in tokens.
ReadResponse(file) ==
    IF Len(file) > MaxResponseBytes THEN Nothing ELSE ParseResponse(file)

Separator == <<"\n", "\n", "SOURCES", "\n">>
BlockAt(text) ==
    LET at == {i \in DOMAIN text : i + 3 <= Len(text) /\ SubSeq(text, i, i + 3) = Separator}
    IN IF at = {} THEN 0 ELSE Max(at)

\* AddMessageLocked: the message as it is shown, its text and its pills.
SplitSources(text) ==
    LET lines == Lines(SubSeq(text, BlockAt(text) + 4, Len(text)))
        pills == Keep(Tail(lines), LAMBDA line : line # <<>>)
    IN IF BlockAt(text) = 0 \/ lines = <<>> \/ lines[1] = <<>> \/ pills = <<>>
       THEN [text |-> text, heading |-> <<>>, sources |-> <<>>]
       ELSE [text |-> SubSeq(text, 1, BlockAt(text) - 1), heading |-> lines[1],
             sources |-> SubSeq(pills, 1, Min({Len(pills), MaxSources}))]
=============================================================================
