----------------------------- MODULE AnswerProofs -----------------------------
(***************************************************************************)
(* Proofs about the way back of the exchange that Prompt describes, for    *)
(* every answer that satisfies its assumptions: the file of an answer and  *)
(* what the plugin reads of it (BridgeText), and what the player sees.     *)
(***************************************************************************)
EXTENDS PromptProofs

---------------------------------------------------------------------------
(***************************************************************************)
(* Lines, joined                                                           *)
(***************************************************************************)
\* A text of lines: none has a break in it.
AreLines(lines, T) ==
    lines \in Seq(Seq(T)) /\ \A k \in 1 .. Len(lines) : NoBreak(lines[k])

\* One line more, or another last line.
LEMMA LinesAppend ==
    ASSUME NEW T, NEW lines, AreLines(lines, T), NEW a \in Seq(T), NoBreak(a)
    PROVE  AreLines(Append(lines, a), T) /\ Append(lines, a) # <<>>
<1> DEFINE S == Seq(T)
           all == Append(lines, a)
           m == Len(lines)
<1>1. lines \in Seq(S) /\ a \in S /\ \A k \in 1 .. m : NoBreak(lines[k])
  BY DEF AreLines
<1> HIDE DEF S
<1>2. /\ all \in Seq(S) /\ all # <<>> /\ Len(all) = m + 1 /\ all[m + 1] = a /\ m \in Nat
      /\ \A k \in 1 .. m : all[k] = lines[k]
  BY <1>1
<1> HIDE DEF all, m
<1>3. \A k \in 1 .. Len(all) : NoBreak(all[k])
  <2>1. \A k \in 1 .. Len(all) : k = m + 1 \/ k \in 1 .. m
    BY <1>2
  <2> QED BY <1>1, <1>2, <2>1
<1> QED BY <1>2, <1>3 DEF AreLines, S, all

\* Lines that are joined to one more.
LEMMA JoinAppend ==
    ASSUME NEW T, "\n" \in T, NEW l \in Seq(Seq(T)), l # <<>>, NEW x \in Seq(T)
    PROVE  /\ Join(l) \in Seq(T)
           /\ Join(Append(l, x)) = Cat(Cat(Join(l), Break), x)
<1> DEFINE S == Seq(T)
<1>1. PICK f \in Seq(S), b \in S : l = Append(f, b)
  BY SequenceEmptyOrAppend
<1>2. f \in Seq(Seq(T)) /\ b \in Seq(T) /\ l \in Seq(Seq(T)) /\ Break \in Seq(T)
  BY DEF Break
<1> DEFINE w == Written(f)
           line == b \o <<"\n">>
<1>3. Join(l) = w \o b
  BY <1>1, <1>2, JoinWritten
<1>4. w \in Seq(T) /\ Written(l) = w \o line
  BY <1>1, <1>2, WrittenAppend
<1>5. Join(Append(l, x)) = Written(l) \o x
  BY <1>2, JoinWritten
<1> HIDE DEF w, line
<1>6. Join(l) = Cat(w, b) /\ Written(l) = Cat(w, line) /\ line = Cat(b, Break)
      /\ Join(Append(l, x)) = Cat(Written(l), x)
  BY <1>3, <1>4, <1>5 DEF Cat, line, Break
<1>7. Cat(w, Cat(b, Break)) = Cat(Cat(w, b), Break) /\ Cat(w, b) \in Seq(T)
  BY <1>2, <1>4, CatRegroup
<1> QED BY <1>6, <1>7

\* Every text consists of lines.
LEMMA LinesExist ==
    ASSUME NEW T, "\n" \in T, NEW text \in Seq(T)
    PROVE  \E l : AreLines(l, T) /\ l # <<>> /\ Join(l) = text
<1> DEFINE Is(l, t) == AreLines(l, T) /\ l # <<>> /\ Join(l) = t
           G == {t \in Seq(T) : \E l : Is(l, t)}
           S == Seq(T)
<1>1. <<>> \in G
  <2> DEFINE none == <<>>
  <2>1. AreLines(none, T) /\ none \in S /\ NoBreak(none) /\ none \in Seq(S)
    BY DEF AreLines, NoBreak
  <2>2. none \o none = none
    OBVIOUS
  <2> HIDE DEF none
  <2>3. Join(Append(none, none)) = Written(none) \o none
    BY <2>1, JoinWritten
  <2>4. Written(none) = none
    BY WrittenNone DEF none
  <2>5. Is(Append(none, none), none)
    BY <2>1, <2>2, <2>3, <2>4, LinesAppend
  <2> HIDE DEF Is
  <2> QED BY <2>1, <2>5 DEF none
<1>2. ASSUME NEW t \in Seq(T), t \in G, NEW c \in T PROVE Append(t, c) \in G
  <2> DEFINE u == Append(t, c)
             one == <<c>>
  <2>1. PICK l : Is(l, t)
    BY <1>2
  <2>2. l \in Seq(S) /\ l # <<>> /\ AreLines(l, T) /\ Join(l) = t
    BY <2>1 DEF AreLines
  <2>3. u \in Seq(T) /\ u = t \o one /\ one \in Seq(T)
    BY AppendIsConcat
  <2> HIDE DEF u, one
  <2>4. CASE c = "\n"
    <3> DEFINE none == <<>>
    <3>1. none \in S /\ NoBreak(none) /\ one = Break
      BY <2>4 DEF NoBreak, one, Break
    <3>2. u \o none = u
      BY <2>3
    <3> HIDE DEF none
    <3>3. Join(Append(l, none)) = Cat(Cat(Join(l), Break), none)
      BY <2>2, <3>1, JoinAppend
    <3>4. Join(Append(l, none)) = u
      BY <2>2, <2>3, <3>1, <3>2, <3>3 DEF Cat
    <3>5. Is(Append(l, none), u)
      BY <2>2, <3>1, <3>4, LinesAppend
    <3> HIDE DEF Is
    <3> QED BY <2>3, <3>5 DEF u
  <2>5. CASE c # "\n"
    <3>1. PICK f \in Seq(S), b \in S : l = Append(f, b)
      BY <2>2, SequenceEmptyOrAppend
    <3> DEFINE more == Append(b, c)
               m == Len(f)
    <3>2. more \in S /\ more = b \o one /\ b \in Seq(T)
      BY AppendIsConcat DEF one
    <3>3. /\ m \in Nat /\ Len(l) = m + 1 /\ l[m + 1] = b
          /\ \A k \in 1 .. m : l[k] = f[k]
      BY <3>1
    <3>4. NoBreak(b) /\ \A k \in 1 .. m : NoBreak(f[k])
      <4> HIDE DEF m
      <4>1. m + 1 \in 1 .. Len(l) /\ \A k \in 1 .. m : k \in 1 .. Len(l)
        BY <3>3
      <4> QED BY <2>2, <3>3, <4>1 DEF AreLines
    <3>5. NoBreak(more)
      <4> DEFINE n == Len(b)
      <4>1. n \in Nat /\ Len(more) = n + 1 /\ more[n + 1] = c
            /\ \A k \in 1 .. n : more[k] = b[k]
        BY <3>2
      <4> HIDE DEF n, more
      <4>2. \A k \in 1 .. Len(more) : k = n + 1 \/ k \in 1 .. n
        BY <4>1
      <4> QED BY <2>5, <3>4, <4>1, <4>2 DEF NoBreak, n
    <3> HIDE DEF more, m
    <3>6. AreLines(f, T) /\ f \in Seq(Seq(T))
      BY <3>4 DEF AreLines, m
    <3> DEFINE w == Written(f)
    <3>7. Join(Append(f, more)) = w \o more /\ t = w \o b /\ w \in Seq(T)
      BY <2>2, <3>1, <3>2, <3>6, JoinWritten, WrittenAppend
    <3> HIDE DEF w
    <3>8. w \o (b \o one) = (w \o b) \o one
      <4>1. w \in Seq(T) /\ b \in Seq(T) /\ one \in Seq(T)
        BY <2>3, <3>2, <3>7
      <4>2. Cat(w, Cat(b, one)) = Cat(Cat(w, b), one)
        BY <4>1, CatRegroup
      <4> QED BY <4>2 DEF Cat
    <3>9. Is(Append(f, more), u)
      BY <2>3, <3>2, <3>5, <3>6, <3>7, <3>8, LinesAppend
    <3> HIDE DEF Is
    <3> QED BY <2>3, <3>9 DEF u
  <2> QED BY <2>4, <2>5 DEF u
<1> HIDE DEF Is
<1>3. text \in G
  <2> HIDE DEF G
  <2> QED BY <1>1, <1>2, ListInduction
<1> QED BY <1>3 DEF Is

\* A text is read line by line, unless the last one is empty.
LEMMA JoinedRead ==
    ASSUME NEW T, "\n" \in T, NEW lines, AreLines(lines, T), NEW a \in Seq(T), a # <<>>,
           NoBreak(a)
    PROVE  Lines(Join(Append(lines, a))) = Chomped(Append(lines, a))
<1>1. lines \in Seq(Seq(T)) /\ \A k \in 1 .. Len(lines) : NoBreak(lines[k])
  BY DEF AreLines
<1>2. Join(Append(lines, a)) = Written(lines) \o a
  BY <1>1, JoinWritten
<1>3. Lines(Written(lines) \o a) = Chomped(Append(lines, a))
  BY <1>1, UnendedLines
<1> QED BY <1>2, <1>3

\* What f makes of the elements of S are elements of R.
Maps(f, S, R) == f \in [S -> R]

\* What becomes of each entry of a list.
Each(f, s) == [i \in DOMAIN s |-> f[s[i]]]

\* They are as many.
LEMMA EachType ==
    ASSUME NEW S, NEW R, NEW f, Maps(f, S, R), NEW s \in Seq(S)
    PROVE  Each(f, s) \in Seq(R) /\ Len(Each(f, s)) = Len(s)
<1> DEFINE n == Len(s)
           e == [i \in 1 .. n |-> f[s[i]]]
<1>1. n \in Nat /\ DOMAIN s = 1 .. n /\ \A i \in 1 .. n : s[i] \in S
  OBVIOUS
<1>2. Each(f, s) = e
  BY <1>1 DEF Each
<1> HIDE DEF n
<1>3. (\A i \in 1 .. n : e[i] \in R) /\ e = [i \in 1 .. n |-> e[i]]
  BY <1>1 DEF Maps
<1> HIDE DEF e
<1>4. e \in Seq(R) /\ Len(e) = n
  BY <1>1, <1>3, ListOf
<1> QED BY <1>2, <1>4 DEF n

\* One entry more.
LEMMA EachAppend ==
    ASSUME NEW S, NEW R, NEW f, Maps(f, S, R), NEW s \in Seq(S), NEW x \in S
    PROVE  Each(f, Append(s, x)) = Append(Each(f, s), f[x])
<1> DEFINE n == Len(s)
           u == Append(s, x)
           e == [i \in 1 .. n |-> f[s[i]]]
           more == [i \in 1 .. n + 1 |-> f[u[i]]]
           y == f[x]
<1>1. /\ n \in Nat /\ DOMAIN s = 1 .. n /\ DOMAIN u = 1 .. n + 1 /\ u[n + 1] = x
      /\ \A i \in 1 .. n : u[i] = s[i] /\ s[i] \in S
  OBVIOUS
<1>2. Each(f, s) = e /\ Each(f, u) = more /\ y \in R
  BY <1>1 DEF Each, Maps
<1> HIDE DEF u, n
<1>4. e \in Seq(R) /\ Len(e) = n
  BY <1>2, EachType DEF n
<1> HIDE DEF e, y
<1> DEFINE v == Append(e, y)
<1>5. /\ Len(v) = n + 1 /\ v[n + 1] = y /\ v \in Seq(R)
      /\ \A i \in 1 .. n : v[i] = e[i]
  BY <1>1, <1>2, <1>4
<1>6. v = [i \in 1 .. n + 1 |-> v[i]]
  <2> HIDE DEF v
  <2> QED BY <1>5
<1> HIDE DEF v
<1>7. \A i \in 1 .. n + 1 : more[i] = v[i]
  <2> SUFFICES ASSUME NEW i \in 1 .. n + 1 PROVE more[i] = v[i]
    OBVIOUS
  <2>1. CASE i = n + 1
    BY <1>1, <1>5, <2>1 DEF y
  <2>2. CASE i # n + 1
    <3>1. i \in 1 .. n
      BY <1>1, <2>2
    <3> QED BY <1>1, <1>5, <3>1 DEF e
  <2> QED BY <2>1, <2>2
<1>8. more = v
  <2>1. more = [i \in 1 .. n + 1 |-> more[i]]
    OBVIOUS
  <2> HIDE DEF more
  <2> QED BY <1>6, <1>7, <2>1
<1> QED BY <1>2, <1>4, <1>8 DEF v, y, u, n

\* No entry.
LEMMA EachNone == ASSUME NEW f PROVE Each(f, <<>>) = <<>>
BY DEF Each

\* Entries that follow entries.
LEMMA EachConcat ==
    ASSUME NEW S, NEW R, NEW f, Maps(f, S, R), NEW s \in Seq(S), NEW t \in Seq(S)
    PROVE  Each(f, Cat(s, t)) = Cat(Each(f, s), Each(f, t))
<1> DEFINE G == {l \in Seq(S) : Each(f, Cat(s, l)) = Cat(Each(f, s), Each(f, l))}
           e == Each(f, s)
<1>1. e \in Seq(R)
  BY EachType
<1>2. <<>> \in G
  <2>1. Cat(s, <<>>) = s /\ <<>> \in Seq(S)
    BY DEF Cat
  <2>2. Cat(e, <<>>) = e
    <3> HIDE DEF e
    <3> QED BY <1>1 DEF Cat
  <2> QED BY <2>1, <2>2, EachNone
<1>3. ASSUME NEW l \in Seq(S), l \in G, NEW x \in S PROVE Append(l, x) \in G
  <2> DEFINE w == Cat(s, l)
             d == Each(f, l)
             y == f[x]
             u == Append(l, x)
  <2>1. w \in Seq(S) /\ y \in R /\ u \in Seq(S)
    BY DEF Cat, Maps
  <2>2. d \in Seq(R) /\ Each(f, u) = Append(d, y)
    BY EachAppend, EachType
  <2>3. Cat(s, u) = Append(w, x)
    <3> HIDE DEF d, y, u, e
    <3> QED BY CatAppend DEF u
  <2> HIDE DEF w
  <2>4. Each(f, Append(w, x)) = Append(Each(f, w), y)
    BY <2>1, EachAppend
  <2>5. Each(f, w) = Cat(e, d)
    BY <1>3 DEF w
  <2>6. Append(Cat(e, d), y) = Cat(e, Append(d, y))
    <3>1. e \in Seq(R) /\ d \in Seq(R) /\ y \in R
      BY <1>1, <2>1, <2>2
    <3> HIDE DEF e, d, y
    <3> QED BY <3>1, CatAppend
  <2> HIDE DEF e, d, y, u
  <2>7. Each(f, Cat(s, u)) = Cat(e, Each(f, u))
    BY <2>2, <2>3, <2>4, <2>5, <2>6
  <2> QED BY <2>1, <2>7 DEF e, u
<1> HIDE DEF G
<1>4. t \in G
  BY <1>2, <1>3, ListInduction
<1> QED BY <1>4 DEF G

\* One after the other.
LEMMA EachEach ==
    ASSUME NEW S, NEW R, NEW Q, NEW f, Maps(f, S, R), NEW g, Maps(g, R, Q), NEW h, Maps(h, S, Q),
           \A x \in S : h[x] = g[f[x]], NEW s \in Seq(S)
    PROVE  Each(g, Each(f, s)) = Each(h, s)
<1> DEFINE n == Len(s)
<1>1. n \in Nat /\ DOMAIN s = 1 .. n /\ \A i \in 1 .. n : s[i] \in S
  OBVIOUS
<1> HIDE DEF n
<1>2. Each(f, s) = [i \in 1 .. n |-> f[s[i]]]
  BY <1>1 DEF Each
<1> DEFINE e == Each(f, s)
<1> HIDE DEF e
<1>3. DOMAIN e = 1 .. n /\ \A i \in 1 .. n : e[i] = f[s[i]]
  BY <1>2 DEF e
<1>4. Each(g, e) = [i \in 1 .. n |-> g[e[i]]] /\ Each(h, s) = [i \in 1 .. n |-> h[s[i]]]
  BY <1>1, <1>3 DEF Each
<1>5. \A i \in 1 .. n : g[e[i]] = h[s[i]]
  BY <1>1, <1>3
<1> QED BY <1>4, <1>5 DEF e

\* A single text, joined.
LEMMA JoinOne == ASSUME NEW T, "\n" \in T, NEW x \in Seq(T) PROVE Join(<<x>>) = x
<1> DEFINE none == <<>>
<1>1. none \in Seq(Seq(T)) /\ Append(none, x) = <<x>> /\ none \o x = x
  OBVIOUS
<1>2. Written(none) = none
  BY WrittenNone
<1> HIDE DEF none
<1>3. Join(Append(none, x)) = Written(none) \o x
  BY <1>1, JoinWritten
<1> QED BY <1>1, <1>2, <1>3

\* Lines that are joined to lines.
LEMMA JoinConcat ==
    ASSUME NEW T, "\n" \in T, NEW u \in Seq(Seq(T)), u # <<>>,
           NEW v \in Seq(Seq(T)), v # <<>>
    PROVE  Join(Cat(u, v)) = Cat(Cat(Join(u), Break), Join(v))
<1> DEFINE S == Seq(T)
           Is(l) == Join(Cat(u, l)) = Cat(Cat(Join(u), Break), Join(l))
           G == {l \in Seq(S) : l # <<>> => Is(l)}
<1>1. <<>> \in G
  OBVIOUS
<1>2. ASSUME NEW l \in Seq(S), l \in G, NEW x \in S PROVE Append(l, x) \in G
  <2> DEFINE more == Append(l, x)
  <2>1. more \in Seq(S) /\ u \in Seq(S)
    OBVIOUS
  <2>2. CASE l = <<>>
    <3>1. more = <<x>> /\ u \o <<x>> = Append(u, x)
      BY <2>2
    <3>2. Cat(u, more) = Append(u, x)
      BY <3>1 DEF Cat
    <3>3. Join(more) = x
      BY <3>1, JoinOne
    <3>4. Join(Append(u, x)) = Cat(Cat(Join(u), Break), x)
      BY JoinAppend
    <3> HIDE DEF more
    <3> QED BY <2>1, <3>2, <3>3, <3>4 DEF more
  <2>3. CASE l # <<>>
    <3> DEFINE w == Cat(u, l)
    <3>1. w \in Seq(S) /\ w # <<>>
      BY DEF Cat
    <3>2. Cat(u, more) = Append(w, x)
      <4> QED BY <2>1, CatAppend
    <3> HIDE DEF w
    <3>3. Join(Append(w, x)) = Cat(Cat(Join(w), Break), x)
      BY <3>1, JoinAppend
    <3>4. Join(w) = Cat(Cat(Join(u), Break), Join(l))
      BY <1>2, <2>3 DEF w
    <3> DEFINE a == Join(u)
               b == Join(l)
    <3>5. a \in Seq(T) /\ b \in Seq(T) /\ Break \in Seq(T)
      BY <2>3, JoinAppend DEF Break
    <3>6. Join(more) = Cat(Cat(b, Break), x)
      BY <2>3, JoinAppend
    <3> HIDE DEF a, b, more
    <3> DEFINE c == Cat(a, Break)
    <3>7. c \in Seq(T) /\ Cat(b, Break) \in Seq(T)
      BY <3>5, CatRegroup
    <3> HIDE DEF c
    <3>8. Cat(Cat(Cat(c, b), Break), x) = Cat(c, Cat(Cat(b, Break), x))
      <4>1. Cat(Cat(c, b), Break) = Cat(c, Cat(b, Break))
        BY <3>5, <3>7, CatRegroup
      <4>2. Cat(Cat(c, Cat(b, Break)), x) = Cat(c, Cat(Cat(b, Break), x))
        BY <3>7, CatRegroup
      <4> QED BY <4>1, <4>2
    <3>9. Is(more)
      BY <3>2, <3>3, <3>4, <3>6, <3>8 DEF a, b, c
    <3> HIDE DEF Is
    <3> QED BY <2>1, <3>9 DEF more
  <2> QED BY <2>2, <2>3
<1>3. v \in G
  <2> HIDE DEF G
  <2> QED BY <1>1, <1>2, ListInduction
<1> QED BY <1>3

---------------------------------------------------------------------------
(***************************************************************************)
(* The ends of lines                                                       *)
(***************************************************************************)
\* What becomes of each token of a text, one after the other.
Flattened(f, s) == FlattenSeq(Each(f, s))

\* One token more.
LEMMA FlattenedAppend ==
    ASSUME NEW T, NEW f, Maps(f, T, Seq(T)), NEW s \in Seq(T), NEW c \in T
    PROVE  /\ Flattened(f, s) \in Seq(T) /\ f[c] \in Seq(T)
           /\ Flattened(f, Append(s, c)) = Cat(Flattened(f, s), f[c])
<1> DEFINE S == Seq(T)
           e == Each(f, s)
           x == f[c]
<1>1. x \in S
  BY DEF Maps
<1>2. e \in Seq(S)
  <2> HIDE DEF S
  <2>1. Maps(f, T, S)
    BY DEF S
  <2> QED BY <2>1, EachType
<1>3. Each(f, Append(s, c)) = Append(e, x)
  BY EachAppend
<1> HIDE DEF e, x
<1>4. FlattenSeq(e) \in Seq(T)
  BY <1>2, FlattenType
<1>5. FlattenSeq(Append(e, x)) = FlattenSeq(e) \o x
  BY <1>1, <1>2, FlattenAppend
<1> QED BY <1>1, <1>3, <1>4, <1>5 DEF Flattened, Cat, e, x

\* No token.
LEMMA FlattenedNone == ASSUME NEW f PROVE Flattened(f, <<>>) = <<>>
BY EachNone, FlattenEmpty DEF Flattened

\* A single token.
LEMMA FlattenedOne ==
    ASSUME NEW T, NEW f, Maps(f, T, Seq(T)), NEW c \in T
    PROVE  Flattened(f, <<c>>) = f[c]
<1> DEFINE none == <<>>
           x == f[c]
<1>1. none \in Seq(T)
  OBVIOUS
<1>6. Append(none, c) = <<c>>
  OBVIOUS
<1>2. Flattened(f, none) = none
  BY FlattenedNone
<1> HIDE DEF none
<1>3. Flattened(f, Append(none, c)) = Cat(Flattened(f, none), x)
  BY <1>1, FlattenedAppend
<1>5. x \in Seq(T)
  BY DEF Maps
<1> HIDE DEF x
<1>4. Cat(none, x) = x
  BY <1>5 DEF Cat, none
<1> QED BY <1>2, <1>3, <1>4, <1>6 DEF x

\* Tokens that follow tokens.
LEMMA FlattenedConcat ==
    ASSUME NEW T, NEW f, Maps(f, T, Seq(T)), NEW s \in Seq(T), NEW t \in Seq(T)
    PROVE  /\ Flattened(f, s) \in Seq(T)
           /\ Flattened(f, Cat(s, t)) = Cat(Flattened(f, s), Flattened(f, t))
<1> DEFINE S == Seq(T)
           e == Each(f, s)
           d == Each(f, t)
<1>1. e \in Seq(S) /\ d \in Seq(S)
  <2> HIDE DEF S
  <2>1. Maps(f, T, S)
    BY DEF S
  <2> QED BY <2>1, EachType
<1>2. Each(f, Cat(s, t)) = Cat(e, d)
  BY EachConcat
<1> HIDE DEF e, d
<1>3. FlattenSeq(e) \in Seq(T)
  BY <1>1, FlattenType
<1>4. FlattenSeq(e \o d) = FlattenSeq(e) \o FlattenSeq(d)
  BY <1>1, FlattenConcat
<1> QED BY <1>2, <1>3, <1>4 DEF Flattened, Cat, e, d

\* Tokens that stay what they are.
LEMMA FlattenedSame ==
    ASSUME NEW T, NEW f, Maps(f, T, Seq(T)), NEW s \in Seq(T),
           \A i \in 1 .. Len(s) : f[s[i]] = <<s[i]>>
    PROVE  Flattened(f, s) = s
<1> DEFINE U == {c \in T : f[c] = <<c>>}
           G == {l \in Seq(U) : Flattened(f, l) = l}
<1>1. <<>> \in G
  BY FlattenedNone
<1>2. ASSUME NEW l \in Seq(U), l \in G, NEW c \in U PROVE Append(l, c) \in G
  <2> DEFINE one == <<c>>
             u == Append(l, c)
  <2>1. c \in T /\ f[c] = one /\ Flattened(f, l) = l /\ u \in Seq(U)
    BY <1>2
  <2>2. l \in Seq(T)
    <3>1. U \subseteq T
      OBVIOUS
    <3> HIDE DEF U
    <3> QED BY <3>1, WiderSeq
  <2>3. u = Cat(l, one)
    BY <2>1, <2>2, AppendIsConcat DEF Cat
  <2> HIDE DEF one
  <2>4. Flattened(f, u) = Cat(Flattened(f, l), f[c])
    BY <2>1, <2>2, FlattenedAppend
  <2> HIDE DEF u, U
  <2> QED BY <2>1, <2>3, <2>4 DEF u
<1>3. s \in Seq(U)
  <2> DEFINE n == Len(s)
  <2>1. n \in Nat /\ s = [i \in 1 .. n |-> s[i]] /\ \A i \in 1 .. n : s[i] \in T
    OBVIOUS
  <2>2. \A i \in 1 .. n : s[i] \in U
    BY <2>1
  <2> HIDE DEF U, n
  <2> QED BY <2>1, <2>2, ListOf
<1> HIDE DEF G, U
<1>4. s \in G
  BY <1>1, <1>2, <1>3, ListInduction
<1> QED BY <1>4 DEF G

\* The end of a line, as the system of the daemon writes it.
Ending(windows) == IF windows THEN <<"\r", "\n">> ELSE Break
Translate(T, windows) == [c \in T |-> IF c = "\n" THEN Ending(windows) ELSE <<c>>]
Returned(T, windows) == [a \in Seq(T) |-> IF windows THEN Cat(a, <<"\r">>) ELSE a]

\* They are made of the same tokens.
LEMMA EndingType ==
    ASSUME NEW T, "\n" \in T, "\r" \in T, NEW windows \in BOOLEAN
    PROVE  /\ Ending(windows) \in Seq(T) /\ Break \in Seq(T) /\ <<"\r">> \in Seq(T)
           /\ Maps(Translate(T, windows), T, Seq(T))
           /\ Maps(Returned(T, windows), Seq(T), Seq(T))
<1> DEFINE S == Seq(T)
           two == <<"\r", "\n">>
           return == <<"\r">>
<1>1. two \in S /\ Break \in S /\ return \in S /\ \A c \in T : <<c>> \in S
  BY DEF Break
<1>2. \A a \in S : Cat(a, return) \in S
  BY <1>1, CatRegroup
<1> HIDE DEF S, return, two
<1>3. Ending(windows) \in S
  BY <1>1 DEF Ending, two
<1>4. Maps(Translate(T, windows), T, S)
  BY <1>1, <1>3 DEF Maps, Translate
<1>5. Maps(Returned(T, windows), S, S)
  BY <1>2 DEF Maps, Returned, S, return
<1> QED BY <1>1, <1>3, <1>4, <1>5 DEF S, return

\* A line with its end.
LEMMA LineTranslated ==
    ASSUME NEW T, "\n" \in T, "\r" \in T, NEW windows \in BOOLEAN,
           NEW a \in Seq(T), NoBreak(a)
    PROVE  Flattened(Translate(T, windows), Cat(a, Break))
                = Cat(Returned(T, windows)[a], Break)
<1> DEFINE f == Translate(T, windows)
           return == <<"\r">>
<1>1. Maps(f, T, Seq(T)) /\ Break \in Seq(T) /\ return \in Seq(T)
  BY EndingType
<1>2. Flattened(f, a) = a
  <2>1. \A i \in 1 .. Len(a) : a[i] \in T /\ a[i] # "\n"
    BY DEF NoBreak
  <2>2. \A i \in 1 .. Len(a) : f[a[i]] = <<a[i]>>
    BY <2>1 DEF Translate
  <2> HIDE DEF f
  <2> QED BY <1>1, <2>2, FlattenedSame
<1>3. Flattened(f, Break) = Ending(windows)
  <2> DEFINE break == "\n"
  <2>1. f[break] = Ending(windows) /\ break \in T /\ Break = <<break>>
    BY DEF Translate, Break
  <2> HIDE DEF f, break
  <2> QED BY <1>1, <2>1, FlattenedOne
<1> HIDE DEF f
<1>4. Flattened(f, Cat(a, Break)) = Cat(a, Ending(windows))
  BY <1>1, <1>2, <1>3, FlattenedConcat
<1>5. Cat(Returned(T, windows)[a], Break) = Cat(a, Ending(windows))
  <2>1. CASE windows
    <3>1. Cat(return, Break) = Ending(windows)
      BY <2>1, JoinedPair DEF Cat, Break, Ending
    <3>2. Returned(T, windows)[a] = Cat(a, return)
      BY <2>1 DEF Returned
    <3> HIDE DEF return
    <3>3. Cat(Cat(a, return), Break) = Cat(a, Cat(return, Break))
      BY <1>1, CatRegroup
    <3> QED BY <3>1, <3>2, <3>3
  <2>2. CASE ~windows
    BY <2>2 DEF Returned, Ending
  <2> QED BY <2>1, <2>2
<1> QED BY <1>4, <1>5 DEF f

\* A text that is written line by line, with such ends.
LEMMA WrittenTranslated ==
    ASSUME NEW T, "\n" \in T, "\r" \in T, NEW windows \in BOOLEAN,
           NEW lines, AreLines(lines, T)
    PROVE  Flattened(Translate(T, windows), Written(lines))
                = Written(Each(Returned(T, windows), lines))
<1> DEFINE S == {a \in Seq(T) : NoBreak(a)}
           f == Translate(T, windows)
           g == Returned(T, windows)
           Is(l) == Flattened(f, Written(l)) = Written(Each(g, l))
           G == {l \in Seq(S) : Is(l)}
<1>1. Maps(f, T, Seq(T)) /\ Maps(g, Seq(T), Seq(T)) /\ Break \in Seq(T)
  BY EndingType
<1>2. \A a \in S : Flattened(f, Cat(a, Break)) = Cat(g[a], Break)
  BY LineTranslated
<1>3. S \subseteq Seq(T)
  OBVIOUS
<1> HIDE DEF f, g, S
<1>4. <<>> \in G
  <2>1. <<>> \in Seq(S)
    OBVIOUS
  <2>2. Is(<<>>)
    BY FlattenedNone, EachNone, WrittenNone
  <2> QED BY <2>1, <2>2
<1>5. ASSUME NEW l \in Seq(S), l \in G, NEW a \in S PROVE Append(l, a) \in G
  <2> DEFINE u == Append(l, a)
             w == Written(l)
             line == Cat(a, Break)
             e == Each(g, l)
             b == g[a]
  <2>1. l \in Seq(Seq(T)) /\ a \in Seq(T) /\ u \in Seq(S)
    BY <1>3, WiderSeq
  <2>2. w \in Seq(T) /\ Written(u) = Cat(w, line) /\ line \in Seq(T)
    <3>1. Written(l) \in Seq(T) /\ Written(Append(l, a)) = Written(l) \o (a \o <<"\n">>)
      BY <2>1, WrittenAppend
    <3>2. Cat(a, Break) \in Seq(T)
      BY <1>1, <2>1, CatRegroup
    <3> QED BY <3>1, <3>2 DEF Cat, Break
  <2>3. Flattened(f, line) = Cat(b, Break)
    BY <1>2
  <2>4. Flattened(f, w) = Written(e)
    BY <1>5
  <2>5. Each(g, u) = Append(e, b) /\ e \in Seq(Seq(T)) /\ b \in Seq(T)
    <3> DEFINE R == Seq(T)
    <3>1. l \in Seq(R) /\ a \in R /\ Maps(g, R, R)
      BY <1>1, <2>1
    <3>2. b \in R
      BY <3>1 DEF Maps
    <3> HIDE DEF R
    <3>3. Each(g, u) = Append(e, b) /\ e \in Seq(R)
      BY <3>1, EachAppend, EachType
    <3> QED BY <3>2, <3>3 DEF R
  <2> HIDE DEF w, line, e, b
  <2>6. Flattened(f, Cat(w, line)) = Cat(Written(e), Cat(b, Break))
    BY <1>1, <2>2, <2>3, <2>4, FlattenedConcat
  <2>7. Written(Append(e, b)) = Cat(Written(e), Cat(b, Break))
    <3>1. Written(Append(e, b)) = Written(e) \o (b \o <<"\n">>)
      BY <2>5, WrittenAppend
    <3> QED BY <3>1 DEF Cat, Break
  <2>8. Is(u)
    BY <2>2, <2>5, <2>6, <2>7
  <2> HIDE DEF u, Is
  <2> QED BY <2>1, <2>8 DEF u
<1>6. lines \in Seq(S)
  <2> DEFINE n == Len(lines)
  <2>1. n \in Nat /\ lines = [i \in 1 .. n |-> lines[i]]
        /\ \A i \in 1 .. n : lines[i] \in Seq(T) /\ NoBreak(lines[i])
    BY DEF AreLines
  <2>2. \A i \in 1 .. n : lines[i] \in S
    BY <2>1 DEF S
  <2> HIDE DEF n
  <2> QED BY <2>1, <2>2, ListOf
<1> HIDE DEF G
<1>7. lines \in G
  BY <1>4, <1>5, <1>6, ListInduction
<1> QED BY <1>7 DEF G, f, g

\* A line that loses the carriage return at its end.
LEMMA ChompType ==
    ASSUME NEW T, NEW a \in Seq(T)
    PROVE  /\ Chomp(a) \in Seq(T)
           /\ NoBreak(a) => NoBreak(Chomp(a))
           /\ Len(Chomp(a)) <= Len(a) /\ Len(a) \in Nat /\ Len(Chomp(a)) \in Nat
           /\ \A i \in 1 .. Len(Chomp(a)) : Chomp(a)[i] = a[i]
<1>1. CASE a # <<>> /\ Last(a) = "\r"
  <2> DEFINE n == Len(a) - 1
             f == SubSeq(a, 1, n)
  <2>1. n \in Nat /\ n <= Len(a) /\ Len(a) \in Nat
    BY <1>1
  <2>2. Chomp(a) = f
    BY <1>1 DEF Chomp, Front
  <2>3. f \in Seq(T) /\ Len(f) = n /\ \A i \in 1 .. n : f[i] = a[i]
    BY <2>1, FirstPart
  <2> HIDE DEF f, n
  <2> QED BY <2>1, <2>2, <2>3 DEF NoBreak
<1>2. CASE ~(a # <<>> /\ Last(a) = "\r")
  <2>1. Chomp(a) = a
    BY <1>2 DEF Chomp
  <2> QED BY <2>1
<1> QED BY <1>1, <1>2

\* The one that was put there.
LEMMA ChompReturn ==
    ASSUME NEW T, "\r" \in T, NEW a \in Seq(T)
    PROVE  Chomp(Cat(a, <<"\r">>)) = a
<1> DEFINE return == "\r"
           u == Append(a, return)
<1>1. Cat(a, <<"\r">>) = u
  BY AppendIsConcat DEF Cat
<1>2. u # <<>> /\ Last(u) = "\r" /\ Front(u) = a
  BY DEF Last, Front
<1> HIDE DEF u
<1> QED BY <1>1, <1>2 DEF Chomp

\* What the plugin reads of a line that the daemon wrote.
Received(a, windows) == IF windows THEN a ELSE Chomp(a)
ReceivedOf(T, windows) == [a \in Seq(T) |-> Received(a, windows)]

\* A line with the end that the system gives it.
LEMMA LineReceived ==
    ASSUME NEW T, "\n" \in T, "\r" \in T, NEW windows \in BOOLEAN, NEW a \in Seq(T), NoBreak(a)
    PROVE  LET b == Returned(T, windows)[a] IN
           /\ b \in Seq(T) /\ NoBreak(b) /\ Chomp(b) = Received(a, windows)
<1> DEFINE b == Returned(T, windows)[a]
           return == <<"\r">>
           w == Cat(a, return)
<1>1. CASE windows
  <2>1. b = w
    BY <1>1 DEF Returned
  <2>2. return \in Seq(T) /\ Len(return) = 1 /\ return[1] = "\r"
    OBVIOUS
  <2>3. Chomp(w) = a
    BY ChompReturn
  <2> HIDE DEF return
  <2> DEFINE n == Len(a)
  <2>4. /\ w \in Seq(T) /\ n \in Nat /\ Len(w) = n + 1 /\ w[n + 1] = return[1]
        /\ \A i \in 1 .. n : w[i] = a[i]
    <3> DEFINE u == Append(a, "\r")
    <3>1. /\ u \in Seq(T) /\ n \in Nat /\ Len(u) = n + 1 /\ u[n + 1] = "\r"
          /\ \A i \in 1 .. n : u[i] = a[i]
      OBVIOUS
    <3>2. w = u
      BY AppendIsConcat DEF Cat, return
    <3> HIDE DEF w, u
    <3> QED BY <2>2, <3>1, <3>2
  <2> HIDE DEF w, n
  <2>5. NoBreak(w)
    <3>1. \A i \in 1 .. Len(w) : i = n + 1 \/ i \in 1 .. n
      BY <2>4
    <3> QED BY <2>2, <2>4, <3>1 DEF NoBreak, n
  <2> QED BY <1>1, <2>1, <2>3, <2>4, <2>5 DEF Received
<1>2. CASE ~windows
  <2>1. b = a
    BY <1>2 DEF Returned
  <2> QED BY <1>2, <2>1 DEF Received
<1> QED BY <1>1, <1>2

\* What is written line by line is read line by line, whichever system wrote it.
LEMMA TextReceived ==
    ASSUME NEW T, "\n" \in T, "\r" \in T, NEW windows \in BOOLEAN,
           NEW lines, AreLines(lines, T)
    PROVE  Lines(Flattened(Translate(T, windows), Written(lines)))
                = Each(ReceivedOf(T, windows), lines)
<1> DEFINE f == Returned(T, windows)
           R == Each(f, lines)
           S == Seq(T)
           n == Len(lines)
<1>1. lines \in Seq(S) /\ n \in Nat /\ DOMAIN lines = 1 .. n
      /\ \A k \in 1 .. n : lines[k] \in S /\ NoBreak(lines[k])
  BY DEF AreLines
<1>2. \A k \in 1 .. n : f[lines[k]] \in S /\ NoBreak(f[lines[k]])
                        /\ Chomp(f[lines[k]]) = Received(lines[k], windows)
  BY <1>1, LineReceived
<1>3. R = [k \in 1 .. n |-> f[lines[k]]]
  BY <1>1 DEF Each
<1>4. Flattened(Translate(T, windows), Written(lines)) = Written(R)
  BY WrittenTranslated
<1>5. DOMAIN R = 1 .. n /\ \A k \in 1 .. n : R[k] = f[lines[k]]
  BY <1>3
<1> HIDE DEF f, S, n
<1>6. R \in Seq(S) /\ Len(R) = n
  <2>1. R = [k \in 1 .. n |-> R[k]] /\ \A k \in 1 .. n : R[k] \in S
    BY <1>2, <1>3, <1>5
  <2> HIDE DEF R
  <2> QED BY <1>1, <2>1, ListOf
<1>7. \A k \in 1 .. Len(R) : NoBreak(R[k])
  BY <1>2, <1>5, <1>6
<1> HIDE DEF R
<1>8. Lines(Written(R)) = Chomped(R)
  BY <1>6, <1>7, WrittenLines DEF S
<1>9. Chomped(R) = Each(ReceivedOf(T, windows), lines)
  <2>1. Chomped(R) = [k \in 1 .. n |-> Chomp(R[k])]
    BY <1>5 DEF Chomped
  <2>2. Each(ReceivedOf(T, windows), lines) = [k \in 1 .. n |-> ReceivedOf(T, windows)[lines[k]]]
    BY <1>1 DEF Each
  <2>3. \A k \in 1 .. n : ReceivedOf(T, windows)[lines[k]] = Received(lines[k], windows)
    BY <1>1 DEF ReceivedOf, S
  <2>4. \A k \in 1 .. n : Chomp(R[k]) = ReceivedOf(T, windows)[lines[k]]
    BY <1>2, <1>5, <2>3
  <2> QED BY <2>1, <2>2, <2>4
<1> QED BY <1>4, <1>8, <1>9

---------------------------------------------------------------------------
(***************************************************************************)
(* The file of an answer                                                   *)
(***************************************************************************)
\* The first line of an answer, with its state.
AnswerHeader(status) == Header(<<status>>)

\* It is made of seven tokens.
LEMMA AnswerHeaderLine ==
    ASSUME NEW status, status \notin {"\n", "\r", "|"}
    PROVE  LET h == AnswerHeader(status) IN
           /\ h \in Seq(Alphabet({status})) /\ IsLine(h) /\ Len(h) = 7
           /\ h[1] = "v1" /\ h[2] = "|" /\ h[3] = "7" /\ h[4] = "|" /\ h[5] = "s"
           /\ h[6] = "|" /\ h[7] = status
           /\ SanitizeLine(<<status>>) = <<status>>
<1> DEFINE T == {status}
           text == <<status>>
           s == SanitizeLine(text)
           h == Header(text)
<1>1. text \in Seq(T) /\ Len(text) = 1 /\ DOMAIN text = 1 .. 1 /\ text[1] = status
  OBVIOUS
<1> HIDE DEF text
<1>2. s = [i \in DOMAIN text |-> text[i]]
  <2>1. \A i \in DOMAIN text : text[i] \notin {"\n", "\r"}
    BY <1>1
  <2> QED BY <2>1 DEF SanitizeLine
<1>3. text = [i \in DOMAIN text |-> text[i]]
  BY <1>1
<1>4. s = text
  BY <1>2, <1>3
<1> HIDE DEF s
<1>5. /\ h \in Seq(Alphabet(T)) /\ IsLine(h) /\ Len(h) = 6 + Len(s)
      /\ h[1] = "v1" /\ h[2] = "|" /\ h[3] = "7" /\ h[4] = "|"
      /\ h[5] = "s" /\ h[6] = "|"
      /\ \A i \in 1 .. Len(s) : h[6 + i] = s[i]
  BY <1>1, HeaderLine DEF s
<1>6. h[7] = status
  <2>1. 1 \in 1 .. Len(s) /\ 6 + 1 = 7
    BY <1>1, <1>4
  <2> HIDE DEF h
  <2>2. h[6 + 1] = s[1]
    BY <1>5, <2>1
  <2> QED BY <1>1, <1>4, <2>1, <2>2
<1>7. Len(h) = 7
  BY <1>1, <1>4, <1>5
<1> HIDE DEF h
<1> QED BY <1>4, <1>5, <1>6, <1>7 DEF h, s, text, AnswerHeader

\* As it is written.
LEMMA AnswerHeaderText ==
    ASSUME NEW status, status \notin {"\n", "\r", "|"}
    PROVE  <<"v1", "|", "7", "|", "s", "|", status, "\n">> = Cat(AnswerHeader(status), Break)
<1> DEFINE T == Alphabet({status})
           h == AnswerHeader(status)
           u == <<"v1", "|", "7", "|", "s", "|", status, "\n">>
<1>1. /\ h \in Seq(T) /\ Len(h) = 7
      /\ h[1] = "v1" /\ h[2] = "|" /\ h[3] = "7" /\ h[4] = "|" /\ h[5] = "s"
      /\ h[6] = "|" /\ h[7] = status
  BY AnswerHeaderLine
<1>2. Break \in Seq(T) /\ Len(Break) = 1 /\ Break[1] = "\n"
  BY DEF Break, Alphabet, Tokens
<1>3. /\ u \in Seq(T) /\ Len(u) = 8
      /\ u[1] = "v1" /\ u[2] = "|" /\ u[3] = "7" /\ u[4] = "|" /\ u[5] = "s"
      /\ u[6] = "|" /\ u[7] = status /\ u[8] = "\n"
  BY DEF Alphabet, Tokens
<1> HIDE DEF T, h, u
<1>4. \A i \in 1 .. 7 : u[i] = h[i]
  <2>1. \A i \in 1 .. 7 : i = 1 \/ i = 2 \/ i = 3 \/ i = 4 \/ i = 5 \/ i = 6 \/ i = 7
    OBVIOUS
  <2> QED BY <1>1, <1>3, <2>1
<1>5. \A i \in 1 .. Len(Break) : u[Len(h) + i] = Break[i]
  <2>1. \A i \in 1 .. Len(Break) : i = 1 /\ Len(h) + i = 8
    BY <1>1, <1>2
  <2> QED BY <1>2, <1>3, <2>1
<1>6. h \o Break = u
  <2>1. Len(u) = Len(h) + Len(Break) /\ \A i \in 1 .. Len(h) : u[i] = h[i]
    BY <1>1, <1>2, <1>3, <1>4
  <2> QED BY <1>1, <1>2, <1>3, <1>5, <2>1, Joined
<1> QED BY <1>6 DEF Cat, h, u

\* Its fields.
LEMMA AnswerFields ==
    ASSUME NEW status, status \notin {"\n", "\r", "|"}
    PROVE  LET h == AnswerHeader(status)
               f == Split(h, "|", Len(h) + 1)
           IN /\ Len(f) = 4 /\ f[1] = <<"v1">> /\ f[2] = <<"7">> /\ f[3] = <<"s">>
              /\ f[4] = <<status>>
<1> DEFINE h == AnswerHeader(status)
           bars == {i \in DOMAIN h : h[i] = "|"}
           at == InOrder(bars, <)
           m == Cardinality(bars)
<1>1. /\ Len(h) = 7 /\ DOMAIN h = 1 .. 7
      /\ h[1] = "v1" /\ h[2] = "|" /\ h[3] = "7" /\ h[4] = "|" /\ h[5] = "s"
      /\ h[6] = "|" /\ h[7] = status
      /\ SanitizeLine(<<status>>) = <<status>>
  <2>1. h \in Seq(Alphabet({status})) /\ Len(h) = 7
    BY AnswerHeaderLine
  <2>2. DOMAIN h = 1 .. 7
    <3> HIDE DEF h
    <3> QED BY <2>1
  <2> QED BY <2>2, AnswerHeaderLine
<1> HIDE DEF h
<1>2. bars \subseteq {2} \cup {4} \cup {6}
  <2>1. \A i \in 1 .. 7 : i = 1 \/ i = 2 \/ i = 3 \/ i = 4 \/ i = 5 \/ i = 6 \/ i = 7
    OBVIOUS
  <2> QED BY <1>1, <2>1
<1>3. m \in Nat /\ m <= 3
  <2> DEFINE one == {2}
             two == one \cup {4}
             three == two \cup {6}
  <2>1. IsFiniteSet(one) /\ Cardinality(one) = 1
    BY FS_Singleton
  <2> HIDE DEF one
  <2>2. IsFiniteSet(two) /\ Cardinality(two) <= 2 /\ Cardinality(two) \in Nat
    BY <2>1, FS_AddElement
  <2> HIDE DEF two
  <2>3. IsFiniteSet(three) /\ Cardinality(three) <= 3 /\ Cardinality(three) \in Nat
    BY <2>2, FS_AddElement
  <2>4. bars \subseteq three
    BY <1>2 DEF two, one
  <2> HIDE DEF three, bars
  <2>5. IsFiniteSet(bars) /\ Cardinality(bars) <= Cardinality(three)
    BY <2>3, <2>4, FS_Subset
  <2>6. Cardinality(bars) \in Nat
    BY <2>5, FS_CardinalityType
  <2> QED BY <2>3, <2>5, <2>6
<1>4. Len(at) = m
  BY <1>3 DEF InOrder
<1>5. Split(h, "|", 8) = Split(h, "|", 4)
  <2>1. (IF Len(at) < 8 - 1 THEN Len(at) ELSE 8 - 1) = (IF Len(at) < 4 - 1 THEN Len(at) ELSE 4 - 1)
    <3> HIDE DEF m, at
    <3> QED BY <1>3, <1>4
  <2> QED BY <2>1 DEF Split
<1>6. Split(h, "|", Len(h) + 1) = Fields(h)
  <2>1. Len(h) + 1 = 8
    BY <1>1
  <2> QED BY <1>5, <2>1 DEF Fields
<1>7. LET f == Fields(h) IN
      /\ Len(f) = 4 /\ f[1] = <<"v1">> /\ f[2] = <<"7">> /\ f[3] = <<"s">>
      /\ f[4] = SanitizeLine(<<status>>)
  <2> DEFINE text == <<status>>
             T == {status}
  <2>1. text \in Seq(T)
    OBVIOUS
  <2> HIDE DEF text, T
  <2> QED BY <2>1, HeaderFields DEF h, AnswerHeader, text
<1> QED BY <1>1, <1>6, <1>7 DEF h

\* A text that does not end with space has a last line.
LEMMA LastLine ==
    ASSUME NEW T, "\n" \in T, NEW lines, AreLines(lines, T), lines # <<>>,
           Join(lines) # <<>>, Join(lines)[Len(Join(lines))] \notin PythonSpace
    PROVE  \E l, a : /\ lines = Append(l, a) /\ AreLines(l, T) /\ a \in Seq(T) /\ NoBreak(a)
                     /\ a # <<>> /\ a[Len(a)] = Join(lines)[Len(Join(lines))]
                     /\ a[Len(a)] \notin PythonSpace
<1> DEFINE S == Seq(T)
           text == Join(lines)
<1>1. PICK l \in Seq(S), a \in S : lines = Append(l, a)
  <2>1. lines \in Seq(S)
    BY DEF AreLines
  <2> HIDE DEF S
  <2> QED BY <2>1, SequenceEmptyOrAppend
<1>2. l \in Seq(Seq(T)) /\ a \in Seq(T)
  OBVIOUS
<1> DEFINE w == Written(l)
           m == Len(l)
<1>3. text = w \o a /\ w \in Seq(T)
  BY <1>1, <1>2, JoinWritten, WrittenAppend
<1>4. AreLines(l, T) /\ NoBreak(a)
  <2>1. m \in Nat /\ Len(lines) = m + 1 /\ lines[m + 1] = a
        /\ \A k \in 1 .. m : lines[k] = l[k]
    BY <1>1
  <2> HIDE DEF m
  <2>2. m + 1 \in 1 .. Len(lines) /\ \A k \in 1 .. m : k \in 1 .. Len(lines)
    BY <2>1
  <2>3. NoBreak(lines[m + 1]) /\ \A k \in 1 .. m : NoBreak(lines[k])
    BY <2>2 DEF AreLines
  <2>4. NoBreak(a) /\ \A k \in 1 .. m : NoBreak(l[k])
    BY <2>1, <2>3
  <2> QED BY <1>2, <2>4 DEF AreLines, m
<1>5. a # <<>>
  <2> SUFFICES ASSUME a = <<>> PROVE FALSE
    OBVIOUS
  <2>1. text = w
    <3> HIDE DEF w, text
    <3> QED BY <1>3
  <2>2. CASE l = <<>>
    <3>1. w = <<>>
      BY <2>2, WrittenNone
    <3> QED BY <2>1, <3>1
  <2>3. CASE l # <<>>
    <3>1. PICK f \in Seq(S), b \in S : l = Append(f, b)
      BY <2>3, SequenceEmptyOrAppend
    <3>2. f \in Seq(Seq(T)) /\ b \in Seq(T)
      OBVIOUS
    <3> DEFINE v == Written(f)
               line == b \o <<"\n">>
    <3>3. v \in Seq(T) /\ w = v \o line
      BY <3>1, <3>2, WrittenAppend
    <3>4. line \in Seq(T) /\ Len(line) \in Nat /\ Len(line) >= 1 /\ line[Len(line)] = "\n"
      BY <3>2
    <3> HIDE DEF v, line, w, text
    <3>5. w[Len(w)] = "\n"
      <4> DEFINE i == Len(v) + Len(line)
      <4>1. /\ Len(v \o line) = i /\ Len(v) \in Nat
            /\ \A j \in 1 .. i : (v \o line)[j] =
                      IF j <= Len(v) THEN v[j] ELSE line[j - Len(v)]
        BY <3>3, <3>4, ConcatProperties
      <4>2. i \in 1 .. i /\ ~(i <= Len(v)) /\ i - Len(v) = Len(line)
        BY <3>4, <4>1
      <4> HIDE DEF i
      <4> QED BY <3>3, <3>4, <4>1, <4>2
    <3> QED BY <2>1, <3>5 DEF PythonSpace, Space, text
  <2> QED BY <2>2, <2>3
<1>6. a[Len(a)] = text[Len(text)]
  <2> HIDE DEF w, text
  <2> DEFINE i == Len(w) + Len(a)
  <2>1. /\ Len(text) = i /\ Len(w) \in Nat /\ Len(a) \in Nat
        /\ \A j \in 1 .. i : text[j] =
                      IF j <= Len(w) THEN w[j] ELSE a[j - Len(w)]
    BY <1>2, <1>3, ConcatProperties
  <2>2. i \in 1 .. i /\ ~(i <= Len(w)) /\ i - Len(w) = Len(a)
    <3>1. Len(a) >= 1
      BY <1>2, <1>5
    <3> QED BY <2>1, <3>1
  <2> HIDE DEF i
  <2> QED BY <2>1, <2>2
<1> QED BY <1>1, <1>2, <1>4, <1>5, <1>6 DEF text

\* A line as the daemon writes it: one that is the end of a file is put in brackets.
Guarded(a) == IF a = End THEN <<"[", "END", "]">> ELSE a
SafeOf(T) == [a \in Seq(T) |-> Guarded(Chomp(a))]

\* It is a line.
LEMMA SafeType ==
    ASSUME NEW T, "[" \in T, "]" \in T, "END" \in T
    PROVE  /\ Maps(SafeOf(T), Seq(T), Seq(T))
           /\ \A a \in Seq(T) : NoBreak(a) => NoBreak(SafeOf(T)[a])
<1> DEFINE end == <<"[", "END", "]">>
           S == Seq(T)
<1>1. end \in S /\ NoBreak(end)
  BY DEF NoBreak
<1> HIDE DEF end
<1>2. \A a \in S : Chomp(a) \in S /\ (NoBreak(a) => NoBreak(Chomp(a)))
  BY ChompType
<1> HIDE DEF S
<1>3. \A a \in S : Guarded(Chomp(a)) \in S /\ (NoBreak(a) => NoBreak(Guarded(Chomp(a))))
  BY <1>1, <1>2 DEF Guarded, end
<1>4. Maps(SafeOf(T), S, S)
  BY <1>3 DEF Maps, SafeOf, S
<1>5. \A a \in S : SafeOf(T)[a] = Guarded(Chomp(a))
  BY DEF SafeOf, S
<1> QED BY <1>3, <1>4, <1>5 DEF S

\* What the daemon makes of a reply.
LEMMA SafeLines ==
    ASSUME NEW T, "\n" \in T, NEW lines, AreLines(lines, T), lines # <<>>,
           Join(lines) \in Seq(T), Join(lines) # <<>>, Join(lines)[1] \notin PythonSpace,
           Join(lines)[Len(Join(lines))] \notin PythonSpace
    PROVE  SafeAnswer(Join(lines)) = Join(Each(SafeOf(T), lines))
<1> DEFINE text == Join(lines)
<1>1. Strip(text) = text
  BY StripNothing DEF Strip
<1>2. PICK l, a : /\ lines = Append(l, a) /\ AreLines(l, T) /\ a \in Seq(T) /\ NoBreak(a)
                  /\ a # <<>>
  BY LastLine
<1>3. Lines(text) = Chomped(lines)
  BY <1>2, JoinedRead
<1> HIDE DEF text
<1> DEFINE c == Chomped(lines)
           safe == [i \in DOMAIN c |-> IF c[i] = <<"END">> THEN <<"[", "END", "]">> ELSE c[i]]
<1>4. SafeAnswer(text) = Join(safe)
  BY <1>1, <1>3 DEF SafeAnswer, SanitizeContext
<1>5. safe = Each(SafeOf(T), lines)
  <2>1. DOMAIN c = DOMAIN lines /\ \A i \in DOMAIN lines : c[i] = Chomp(lines[i])
    BY DEF Chomped
  <2>2. \A i \in DOMAIN lines : lines[i] \in Seq(T)
    BY DEF AreLines
  <2> HIDE DEF c
  <2>3. \A i \in DOMAIN lines : SafeOf(T)[lines[i]] = Guarded(c[i])
    BY <2>1, <2>2 DEF SafeOf
  <2> QED BY <2>1, <2>3 DEF Each, Guarded, End
<1> QED BY <1>4, <1>5 DEF text

\* The elements of two lists, one after the other.
LEMMA CatParts ==
    ASSUME NEW T, NEW a \in Seq(T), NEW b \in Seq(T)
    PROVE  /\ Cat(a, b) \in Seq(T) /\ Len(Cat(a, b)) = Len(a) + Len(b)
           /\ Len(a) \in Nat /\ Len(b) \in Nat
           /\ \A i \in 1 .. Len(a) : Cat(a, b)[i] = a[i]
           /\ \A i \in 1 .. Len(b) : Cat(a, b)[Len(a) + i] = b[i]
<1> DEFINE m == Len(a)
           n == Len(b)
           u == a \o b
<1>1. /\ u \in Seq(T) /\ Len(u) = m + n
      /\ \A i \in 1 .. m + n : u[i] = IF i <= m THEN a[i] ELSE b[i - m]
  BY ConcatProperties
<1>2. m \in Nat /\ n \in Nat
  OBVIOUS
<1> HIDE DEF m, n, u
<1>3. \A i \in 1 .. m : u[i] = a[i]
  <2>1. \A i \in 1 .. m : i \in 1 .. m + n /\ i <= m
    BY <1>2
  <2> QED BY <1>1, <2>1
<1>4. \A i \in 1 .. n : u[m + i] = b[i]
  <2>1. \A i \in 1 .. n : m + i \in 1 .. m + n /\ ~(m + i <= m) /\ (m + i) - m = i
    BY <1>2
  <2> QED BY <1>1, <2>1
<1>5. Cat(a, b) = u
  BY DEF Cat, u
<1> HIDE DEF u
<1> QED BY <1>1, <1>2, <1>3, <1>4, <1>5 DEF m, n

\* A list with one more element before it.
LEMMA CatFirst ==
    ASSUME NEW S, NEW h \in S, NEW lines \in Seq(S)
    PROVE  /\ <<h>> \in Seq(S) /\ Cat(<<h>>, lines) \in Seq(S)
           /\ Len(Cat(<<h>>, lines)) = 1 + Len(lines) /\ Len(lines) \in Nat
           /\ Cat(<<h>>, lines)[1] = h
           /\ \A i \in 1 .. Len(lines) : Cat(<<h>>, lines)[1 + i] = lines[i]
<1> DEFINE one == <<h>>
           M == Cat(one, lines)
           n == Len(lines)
<1>1. one \in Seq(S) /\ lines \in Seq(S)
  OBVIOUS
<1>2. Len(one) = 1 /\ one[1] = h
  OBVIOUS
<1> HIDE DEF one
<1>3. M \in Seq(S)
  BY <1>1, CatParts
<1>4. Len(M) = Len(one) + n /\ n \in Nat
  BY <1>1, CatParts
<1>5. \A i \in 1 .. Len(one) : M[i] = one[i]
  BY <1>1, CatParts
<1>6. \A i \in 1 .. n : M[Len(one) + i] = lines[i]
  BY <1>1, CatParts
<1> HIDE DEF M, n
<1>7. 1 \in 1 .. Len(one)
  BY <1>2
<1>8. M[1] = h
  BY <1>2, <1>5, <1>7
<1>9. Len(M) = 1 + n /\ \A i \in 1 .. n : M[1 + i] = lines[i]
  BY <1>2, <1>4, <1>6
<1> QED BY <1>1, <1>3, <1>4, <1>8, <1>9 DEF M, n, one

\* The same in one word, to be expanded once it is known of which lists.
StartsWith(m, h, lines, S) ==
    /\ <<h>> \in Seq(S) /\ m \in Seq(S) /\ Len(m) = 1 + Len(lines) /\ Len(lines) \in Nat
    /\ m[1] = h /\ \A i \in 1 .. Len(lines) : m[1 + i] = lines[i]

\* A list with one more element before it starts with that.
LEMMA CatStarts ==
    ASSUME NEW S, NEW h \in S, NEW lines \in Seq(S)
    PROVE  StartsWith(Cat(<<h>>, lines), h, lines, S)
<1> DEFINE m == Cat(<<h>>, lines)
<1>1. /\ <<h>> \in Seq(S) /\ m \in Seq(S) /\ Len(m) = 1 + Len(lines) /\ Len(lines) \in Nat
      /\ m[1] = h
  BY CatFirst
<1>2. \A i \in 1 .. Len(lines) : m[1 + i] = lines[i]
  BY CatFirst
<1> HIDE DEF m
<1>3. StartsWith(m, h, lines, S)
  BY <1>1, <1>2 DEF StartsWith
<1> QED BY <1>3 DEF m

\* The n elements of a list from place i on.
IsPart(s, t, i, n, T) ==
    s \in Seq(T) /\ Len(s) = n /\ \A k \in 1 .. n : s[k] = t[i + k - 1]

\* A part of a list has its elements.
LEMMA PartIs ==
    ASSUME NEW T, NEW t \in Seq(T), NEW i \in 1 .. Len(t), NEW m \in Nat, NEW n \in Nat,
           m <= Len(t), i + n = m + 1
    PROVE  IsPart(SubSeq(t, i, m), t, i, n, T)
<1> DEFINE s == SubSeq(t, i, m)
<1>1. i \in Int /\ m \in Int /\ m - i + 1 = n /\ (i <= m \/ n = 0)
  OBVIOUS
<1>2. \A j \in i .. m : t[j] \in T
  <2>1. \A j \in i .. m : j \in 1 .. Len(t)
    OBVIOUS
  <2>2. \A j \in 1 .. Len(t) : t[j] \in T
    OBVIOUS
  <2> QED BY <2>1, <2>2
<1>3. s \in Seq(T) /\ Len(s) = (IF i <= m THEN m - i + 1 ELSE 0)
      /\ \A k \in 1 .. m - i + 1 : s[k] = t[i + k - 1]
  BY <1>1, <1>2, SubSeqProperties
<1> HIDE DEF s
<1>4. IsPart(s, t, i, n, T)
  BY <1>1, <1>3 DEF IsPart
<1> QED BY <1>4 DEF s

\* Five texts, one after the other, put together in two ways.
LEMMA FiveRegrouped ==
    ASSUME NEW T, NEW a \in Seq(T), NEW j \in Seq(T), NEW b \in Seq(T), NEW e \in Seq(T)
    PROVE  Cat(Cat(a, j), Cat(Cat(b, e), b)) = Cat(Cat(a, Cat(j, b)), Cat(e, b))
<1> DEFINE S == Seq(T)
           aj == Cat(a, j)
           eb == Cat(e, b)
<1>1. /\ \A x, y \in S : Cat(x, y) \in S
      /\ \A x, y, z \in S : Cat(Cat(x, y), z) = Cat(x, Cat(y, z))
  <2>1. \A x, y \in S : Cat(x, y) \in S
    BY CatRegroup
  <2>2. \A x, y, z \in S : Cat(Cat(x, y), z) = Cat(x, Cat(y, z))
    BY CatRegroup
  <2> QED BY <2>1, <2>2
<1>2. a \in S /\ j \in S /\ b \in S /\ e \in S
  OBVIOUS
<1> HIDE DEF S
<1>3. aj \in S /\ eb \in S
  BY <1>1, <1>2
<1>4. Cat(Cat(b, e), b) = Cat(b, eb)
  BY <1>1, <1>2
<1>5. Cat(a, Cat(j, b)) = Cat(aj, b)
  BY <1>1, <1>2
<1> HIDE DEF aj, eb
<1>6. Cat(aj, Cat(b, eb)) = Cat(Cat(aj, b), eb)
  BY <1>1, <1>2, <1>3
<1> QED BY <1>4, <1>5, <1>6 DEF aj, eb

\* The lines of an answer: the header, the text, the end.
Answer(h, lines) == Append(Cat(<<h>>, lines), End)

\* They are lines.
LEMMA AnswerLines ==
    ASSUME NEW T, "END" \in T, NEW h \in Seq(T), NoBreak(h), NEW lines, AreLines(lines, T)
    PROVE  AreLines(Answer(h, lines), T) /\ Cat(<<h>>, lines) \in Seq(Seq(T))
<1> DEFINE S == Seq(T)
           one == <<h>>
           M == Cat(one, lines)
           n == Len(lines)
<1>1. lines \in Seq(S) /\ h \in S /\ End \in S /\ \A k \in 1 .. n : NoBreak(lines[k])
  BY DEF AreLines, End
<1> HIDE DEF S
<1>2. /\ M \in Seq(S) /\ Len(M) = 1 + n /\ n \in Nat /\ M[1] = h
      /\ \A i \in 1 .. n : M[1 + i] = lines[i]
  <2>1. lines \in Seq(S) /\ h \in S
    BY <1>1
  <2> QED BY <2>1, CatFirst
<1> HIDE DEF M, one, n
<1>3. \A k \in 1 .. Len(M) : NoBreak(M[k])
  <2> SUFFICES ASSUME NEW k \in 1 .. 1 + n PROVE NoBreak(M[k])
    BY <1>2
  <2>1. CASE k = 1
    BY <1>1, <1>2, <2>1
  <2>2. CASE k # 1
    <3>1. k - 1 \in 1 .. n /\ 1 + (k - 1) = k
      BY <1>2, <2>2
    <3> QED BY <1>1, <1>2, <3>1
  <2> QED BY <2>1, <2>2
<1>4. NoBreak(End)
  BY DEF NoBreak, End
<1>5. AreLines(M, T)
  BY <1>2, <1>3 DEF AreLines, S
<1>6. End \in Seq(T)
  BY <1>1 DEF S
<1>7. AreLines(Append(M, End), T)
  BY <1>4, <1>5, <1>6, LinesAppend
<1> QED BY <1>2, <1>7 DEF Answer, M, one, S

\* Before the daemon's system translates the ends of the lines, the answer is written
\* line by line.
LEMMA AnswerFile ==
    ASSUME NEW status, status \notin {"\n", "\r", "|"},
           NEW T, Alphabet({status}) \subseteq T,
           NEW lines, AreLines(lines, T), lines # <<>>
    PROVE  LET h == AnswerHeader(status) IN
           /\ h \in Seq(T) /\ AreLines(Answer(h, lines), T) /\ "\n" \in T
           /\ <<"v1", "|", "7", "|", "s", "|", status, "\n">> \o Join(lines)
                    \o <<"\n", "END", "\n">> = Written(Answer(h, lines))
<1> DEFINE S == Seq(T)
           h == AnswerHeader(status)
           one == <<h>>
           M == Cat(one, lines)
<1>1. h \in S /\ NoBreak(h) /\ "END" \in T /\ "\n" \in T
  <2>1. h \in Seq(Alphabet({status})) /\ NoBreak(h)
    BY AnswerHeaderLine DEF IsLine
  <2>2. Seq(Alphabet({status})) \subseteq S
    BY WiderSeq
  <2>3. "END" \in Alphabet({status}) /\ "\n" \in Alphabet({status})
    BY DEF Alphabet, Tokens
  <2> QED BY <2>1, <2>2, <2>3
<1>2. <<"v1", "|", "7", "|", "s", "|", status, "\n">> = Cat(h, Break)
  BY AnswerHeaderText
<1>3. <<"\n", "END", "\n">> = Cat(Cat(Break, End), Break)
  BY JoinedPair, JoinedThree DEF Cat, Break, End
<1> HIDE DEF h
<1>4. AreLines(Answer(h, lines), T) /\ M \in Seq(S)
  BY <1>1, AnswerLines
<1>5. Break \in S /\ End \in S
  BY <1>1 DEF Break, End
<1>6. PICK f \in Seq(S), b \in S : lines = Append(f, b)
  <2>1. lines \in Seq(S)
    BY DEF AreLines
  <2> HIDE DEF S
  <2> QED BY <2>1, SequenceEmptyOrAppend
<1>7. f \in Seq(Seq(T)) /\ b \in Seq(T) /\ lines \in Seq(Seq(T))
  BY DEF AreLines
<1> DEFINE w == Written(f)
           j == Join(lines)
           y == Written(lines)
<1>8. w \in S /\ j = Cat(w, b) /\ y = Cat(w, Cat(b, Break))
  BY <1>1, <1>6, <1>7, JoinWritten, WrittenAppend DEF Cat, Break
<1> HIDE DEF w, j, y
<1>9. y = Cat(j, Break) /\ j \in S
  BY <1>5, <1>7, <1>8, CatRegroup
<1>10. Written(one) = Cat(h, Break)
  BY <1>1, WrittenOne DEF Cat, Break
<1>11. one \in Seq(Seq(T))
  <2> HIDE DEF S
  <2>1. one \in Seq(S)
    BY <1>1
  <2> QED BY <2>1 DEF S
<1> DEFINE hb == Cat(h, Break)
<1> HIDE DEF one
<1>12. Written(M) = Cat(hb, y)
  BY <1>1, <1>7, <1>10, <1>11, WrittenConcat DEF Cat, y
<1> HIDE DEF M
<1>13. Written(Append(M, End)) = Cat(Cat(hb, y), Cat(End, Break))
  BY <1>1, <1>4, <1>5, <1>12, WrittenAppend DEF Cat, Break
<1>14. hb \in S
  BY <1>1, <1>5, CatRegroup
<1> HIDE DEF hb
<1>15. Cat(Cat(hb, j), Cat(Cat(Break, End), Break)) = Cat(Cat(hb, Cat(j, Break)), Cat(End, Break))
  BY <1>5, <1>9, <1>14, FiveRegrouped
<1>16. Cat(Cat(hb, j), Cat(Cat(Break, End), Break)) = Written(Append(M, End))
  BY <1>9, <1>13, <1>15
<1> QED BY <1>1, <1>2, <1>3, <1>4, <1>16 DEF Answer, M, one, hb, h, Cat, j

\* As it is on the disk.
LEMMA AnswerOnDisk ==
    ASSUME NEW status, status \notin {"\n", "\r", "|"}, NEW windows \in BOOLEAN,
           NEW T, Alphabet({status}) \subseteq T, NEW text, NEW lines, AreLines(lines, T),
           lines # <<>>, SafeAnswer(text) = Join(lines)
    PROVE  WriteAnswer("7", "s", status, text, windows)
             = Flattened(Translate(T, windows), Written(Answer(AnswerHeader(status), lines)))
<1> DEFINE h == AnswerHeader(status)
           all == Answer(h, lines)
           file == Written(all)
           translate(c) == IF windows /\ c = "\n" THEN <<"\r", "\n">> ELSE <<c>>
           top == <<"v1", "|", "7", "|", "s", "|", status, "\n">>
           bottom == <<"\n", "END", "\n">>
<1>6. AreLines(all, T) /\ "\n" \in T /\ top \o Join(lines) \o bottom = file
  BY AnswerFile
<1> HIDE DEF top, bottom
<1>1. AreLines(all, T) /\ "\n" \in T /\ top \o SafeAnswer(text) \o bottom = file
  BY <1>6
<1> USE DEF top, bottom
<1>2. WriteAnswer("7", "s", status, text, windows) = FlattenSeq([i \in DOMAIN file |-> translate(file[i])])
  BY <1>1 DEF WriteAnswer
<1>3. file \in Seq(T)
  <2> HIDE DEF all
  <2>1. CASE all = <<>>
    <3>1. file = <<>>
      BY <2>1, WrittenNone
    <3> HIDE DEF file
    <3> QED BY <3>1
  <2>2. all \in Seq(Seq(T))
    BY <1>1 DEF AreLines
  <2>3. ASSUME NEW x \in Seq(T) PROVE file \in Seq(T)
    BY <1>1, <2>2, <2>3, WrittenAppend
  <2>4. <<>> \in Seq(T)
    OBVIOUS
  <2> QED BY <2>3, <2>4
<1> HIDE DEF file
<1>4. \A i \in DOMAIN file : translate(file[i]) = Translate(T, windows)[file[i]]
  BY <1>3 DEF Translate, Ending, Break
<1> HIDE DEF translate
<1>5. [i \in DOMAIN file |-> translate(file[i])] = Each(Translate(T, windows), file)
  BY <1>4 DEF Each
<1> QED BY <1>2, <1>5 DEF Flattened, file, all, h, translate

\* What becomes of a line on its way.
NetOf(T, windows) == [a \in Seq(T) |-> Received(Guarded(Chomp(a)), windows)]

\* A line.
LEMMA ReceivedType ==
    ASSUME NEW T, "[" \in T, "]" \in T, "END" \in T, NEW windows \in BOOLEAN
    PROVE  /\ Maps(ReceivedOf(T, windows), Seq(T), Seq(T))
           /\ Maps(NetOf(T, windows), Seq(T), Seq(T))
           /\ \A a \in Seq(T) : NetOf(T, windows)[a] = ReceivedOf(T, windows)[SafeOf(T)[a]]
<1> DEFINE S == Seq(T)
           r == ReceivedOf(T, windows)
           s == SafeOf(T)
           n == NetOf(T, windows)
<1>1. \A a \in S : Chomp(a) \in S
  BY ChompType
<1>2. Maps(s, S, S)
  BY SafeType
<1> HIDE DEF S
<1>3. \A a \in S : r[a] = Received(a, windows) /\ s[a] = Guarded(Chomp(a))
                   /\ n[a] = Received(Guarded(Chomp(a)), windows)
  BY DEF ReceivedOf, SafeOf, NetOf, S
<1>4. \A a \in S : Received(a, windows) \in S
  BY <1>1 DEF Received
<1>5. Maps(r, S, S)
  BY <1>4 DEF ReceivedOf, Maps, S
<1>6. \A a \in S : Guarded(Chomp(a)) \in S
  BY <1>2, <1>3 DEF Maps
<1>7. Maps(n, S, S)
  BY <1>4, <1>6 DEF NetOf, Maps, S
<1>8. \A a \in S : n[a] = r[s[a]]
  BY <1>3, <1>6
<1> QED BY <1>5, <1>7, <1>8 DEF S

\* A single line.
LEMMA EachOne ==
    ASSUME NEW S, NEW R, NEW f, Maps(f, S, R), NEW x \in S PROVE Each(f, <<x>>) = <<f[x]>>
<1> DEFINE one == <<x>>
           y == f[x]
<1>1. DOMAIN one = 1 .. 1 /\ one[1] = x
  OBVIOUS
<1> HIDE DEF one, y
<1>2. Each(f, one) = [i \in 1 .. 1 |-> y]
  <2>1. \A i \in 1 .. 1 : f[one[i]] = y
    BY <1>1 DEF y
  <2> QED BY <1>1, <2>1 DEF Each
<1>3. [i \in 1 .. 1 |-> y] = <<y>>
  OBVIOUS
<1> QED BY <1>2, <1>3 DEF one, y

\* The lines the plugin reads are those of the reply, between the header and the end.
LEMMA AnswerReceived ==
    ASSUME NEW T, "[" \in T, "]" \in T, "END" \in T, NEW windows \in BOOLEAN,
           NEW h \in Seq(T), IsLine(h), NEW lines \in Seq(Seq(T))
    PROVE  Each(ReceivedOf(T, windows), Answer(h, Each(SafeOf(T), lines)))
                = Answer(h, Each(NetOf(T, windows), lines))
<1> DEFINE S == Seq(T)
           r == ReceivedOf(T, windows)
           safe == SafeOf(T)
           net == NetOf(T, windows)
           one == <<h>>
           Y == Each(safe, lines)
<1>1. Maps(r, S, S) /\ Maps(safe, S, S) /\ Maps(net, S, S) /\ \A a \in S : net[a] = r[safe[a]]
  BY SafeType, ReceivedType
<1>2. End \in S /\ h \in S
  BY DEF End
<1>3. r[h] = h /\ r[End] = End
  <2>1. Chomp(End) = End
    <3>1. Last(End) = "END"
      BY DEF End, Last
    <3> QED BY <3>1 DEF Chomp
  <2> QED BY <1>2, <2>1 DEF ReceivedOf, Received, IsLine
<1> HIDE DEF r, safe, net, S
<1>4. lines \in Seq(S)
  BY DEF S
<1>5. Y \in Seq(S) /\ one \in Seq(S)
  BY <1>1, <1>2, <1>4, EachType
<1>6. Each(r, Y) = Each(net, lines)
  BY <1>1, <1>4, EachEach
<1>7. Each(r, one) = one
  BY <1>1, <1>2, <1>3, EachOne
<1> HIDE DEF one, Y
<1> DEFINE M == Cat(one, Y)
<1>8. M \in Seq(S)
  BY <1>5, CatRegroup
<1>9. Each(r, M) = Cat(one, Each(net, lines))
  BY <1>1, <1>5, <1>6, <1>7, EachConcat
<1> HIDE DEF M
<1>10. Each(r, Append(M, End)) = Append(Each(r, M), End)
  BY <1>1, <1>2, <1>3, <1>8, EachAppend
<1> QED BY <1>9, <1>10 DEF Answer, M, one, Y, r, safe, net

\* The parts of an answer.
LEMMA AnswerParts ==
    ASSUME NEW T, "END" \in T, NEW h \in Seq(T), NEW lines \in Seq(Seq(T))
    PROVE  LET all == Answer(h, lines) IN
           /\ all # <<>> /\ Len(all) = Len(lines) + 2 /\ all[1] = h /\ Last(all) = End
           /\ SubSeq(all, 2, Len(all) - 1) = lines
<1> DEFINE S == Seq(T)
           one == <<h>>
           M == Cat(one, lines)
           all == Append(M, End)
           n == Len(lines)
<1>1. End \in S /\ h \in S /\ lines \in Seq(S)
  BY DEF End
<1> HIDE DEF S
<1>2. h \in S /\ lines \in Seq(S)
  BY <1>1
<1>3. M \in Seq(S) /\ Len(M) = 1 + n /\ n \in Nat
  BY <1>2, CatFirst
<1>4. M[1] = h
  BY <1>2, CatFirst
<1>5. \A i \in 1 .. n : M[1 + i] = lines[i]
  BY <1>2, CatFirst
<1> HIDE DEF M, n
<1>6. /\ all \in Seq(S) /\ Len(all) = n + 2 /\ all # <<>> /\ all[n + 2] = End
      /\ \A i \in 1 .. n + 1 : all[i] = M[i]
  <2> DEFINE e == End
             m == Len(M)
  <2>1. e \in S /\ M \in Seq(S) /\ m = n + 1
    BY <1>1, <1>3
  <2> HIDE DEF e, m
  <2> DEFINE u == Append(M, e)
  <2>5. e \in S /\ M \in Seq(S)
    BY <2>1
  <2>2. /\ u \in Seq(S) /\ Len(u) = Len(M) + 1 /\ u # <<>> /\ u[Len(M) + 1] = e
        /\ \A i \in 1 .. Len(M) : u[i] = M[i]
    BY <2>5, AppendParts
  <2> HIDE DEF u
  <2>3. Len(M) = n + 1 /\ (n + 1) + 1 = n + 2 /\ Len(u) = n + 2
    BY <1>3, <2>1, <2>2
  <2>4. u[n + 2] = e /\ \A i \in 1 .. n + 1 : u[i] = M[i]
    BY <2>2, <2>3
  <2> QED BY <2>2, <2>3, <2>4 DEF u, e
<1> HIDE DEF all
<1>7. all[1] = h
  BY <1>3, <1>4, <1>6
<1>8. Last(all) = End
  BY <1>6 DEF Last
<1>9. SubSeq(all, 2, Len(all) - 1) = lines
  <2> DEFINE part == SubSeq(all, 2, n + 1)
  <2>1. Len(all) - 1 = n + 1
    BY <1>3, <1>6
  <2>2. \A i \in 2 .. n + 1 : all[i] \in S
    BY <1>3, <1>6
  <2>3. /\ part \in Seq(S) /\ Len(part) = (IF 2 <= n + 1 THEN (n + 1) - 2 + 1 ELSE 0)
        /\ \A i \in 1 .. (n + 1) - 2 + 1 : part[i] = all[2 + i - 1]
    BY <1>3, <2>2, SubSeqProperties
  <2> HIDE DEF part
  <2>4. Len(part) = n
    BY <1>3, <2>3
  <2>5. \A i \in 1 .. n : part[i] = lines[i]
    <3> SUFFICES ASSUME NEW i \in 1 .. n PROVE part[i] = lines[i]
      OBVIOUS
    <3>1. i \in 1 .. (n + 1) - 2 + 1 /\ 2 + i - 1 = 1 + i /\ 1 + i \in 1 .. n + 1
      BY <1>3
    <3>2. part[i] = all[1 + i]
      BY <2>3, <3>1
    <3> QED BY <1>5, <1>6, <3>1, <3>2
  <2>6. Len(lines) = n
    BY DEF n
  <2>7. part = lines
    BY <1>1, <2>3, <2>4, <2>5, <2>6, SeqEqual
  <2> QED BY <2>1, <2>7 DEF part
<1> QED BY <1>6, <1>7, <1>8, <1>9 DEF Answer, all, M, one, n

\* A line that does not end with space.
LEMMA LastNet ==
    ASSUME NEW T, NEW windows \in BOOLEAN, NEW a \in Seq(T), a # <<>>,
           a[Len(a)] \notin PythonSpace
    PROVE  NetOf(T, windows)[a] = Guarded(a) /\ Guarded(a) # <<>>
<1>1. Chomp(a) = a
  BY DEF Chomp, Last, PythonSpace, Space
<1>2. Guarded(a) # <<>>
  BY DEF Guarded
<1>3. Chomp(Guarded(a)) = Guarded(a)
  <2>1. CASE a = End
    <3> DEFINE end == <<"[", "END", "]">>
    <3>1. Last(end) = "]"
      BY DEF Last
    <3>2. Guarded(a) = end
      BY <2>1 DEF Guarded
    <3> HIDE DEF end
    <3> QED BY <3>1, <3>2 DEF Chomp
  <2>2. CASE a # End
    BY <1>1, <2>2 DEF Guarded
  <2> QED BY <2>1, <2>2
<1> QED BY <1>1, <1>2, <1>3 DEF NetOf, Received

\* A text that neither starts nor ends with space.
Closed(text) ==
    text # <<>> /\ text[1] \notin PythonSpace /\ text[Len(text)] \notin PythonSpace

\* Its lines, as they arrive, are a text again.
LEMMA NetText ==
    ASSUME NEW T, "\n" \in T, "[" \in T, "]" \in T, "END" \in T, NEW windows \in BOOLEAN,
           NEW lines, AreLines(lines, T), lines # <<>>, Closed(Join(lines))
    PROVE  LET N == Each(NetOf(T, windows), lines) IN
           N \in Seq(Seq(T)) /\ N # <<>> /\ Join(N) \in Seq(T) /\ Join(N) # <<>>
<1> DEFINE S == Seq(T)
           net == NetOf(T, windows)
<1>1. PICK l, a : /\ lines = Append(l, a) /\ AreLines(l, T) /\ a \in Seq(T)
                  /\ a # <<>> /\ a[Len(a)] \notin PythonSpace
  BY LastLine DEF Closed
<1>2. Maps(net, S, S)
  BY ReceivedType
<1>3. l \in Seq(S) /\ a \in S
  BY <1>1 DEF AreLines
<1>4. net[a] # <<>>
  BY <1>1, LastNet
<1> HIDE DEF net, S
<1> DEFINE d == Each(net, l)
           x == net[a]
           N == Append(d, x)
<1>5. Each(net, lines) = N
  BY <1>1, <1>2, <1>3, EachAppend
<1>6. d \in Seq(S) /\ x \in S
  BY <1>2, <1>3, EachType DEF Maps
<1> HIDE DEF d, x
<1>7. N \in Seq(S) /\ N # <<>>
  BY <1>6
<1> DEFINE w == Written(d)
<1>8. d \in Seq(Seq(T)) /\ x \in Seq(T) /\ x # <<>>
  BY <1>4, <1>6 DEF S, x
<1>9. Join(N) = w \o x /\ w \in Seq(T)
  BY <1>8, JoinWritten, WrittenAppend
<1> HIDE DEF w
<1>10. w \o x \in Seq(T) /\ w \o x # <<>>
  <2> DEFINE u == Cat(w, x)
  <2>1. u \in Seq(T) /\ Len(u) = Len(w) + Len(x) /\ Len(w) \in Nat /\ Len(x) \in Nat
    BY <1>8, <1>9, CatParts
  <2>2. Len(x) # 0
    BY <1>8
  <2> HIDE DEF u
  <2>3. u # <<>>
    BY <2>1, <2>2
  <2> QED BY <2>1, <2>3 DEF u, Cat
<1> QED BY <1>5, <1>7, <1>9, <1>10 DEF S, net

\* What the plugin reads of an answer: its state, and the lines of the reply as they
\* arrive, whichever system the daemon runs on.
LEMMA AnswerRead ==
    ASSUME NEW status \in {"ok", "error"}, NEW T, Alphabet({status}) \subseteq T, "\r" \in T,
           NEW windows \in BOOLEAN, NEW lines, AreLines(lines, T), lines # <<>>,
           Join(lines) \in Seq(T), Closed(Join(lines))
    PROVE  ParseResponse(WriteAnswer("7", "s", status, Join(lines), windows))
             = <<<<"7">>, <<"s">>, <<status>>, Join(Each(NetOf(T, windows), lines))>>
<1> DEFINE S == Seq(T)
           h == AnswerHeader(status)
           safe == SafeOf(T)
           Y == Each(safe, lines)
           N == Each(NetOf(T, windows), lines)
           file == WriteAnswer("7", "s", status, Join(lines), windows)
           n == Len(lines)
<1>1. "\n" \in T /\ "[" \in T /\ "]" \in T /\ "END" \in T /\ status \notin {"\n", "\r", "|"}
  BY DEF Alphabet, Tokens
<1>2. SafeAnswer(Join(lines)) = Join(Y)
  BY <1>1, SafeLines DEF Closed
<1>3. AreLines(Y, T) /\ Y # <<>>
  <2>1. Maps(safe, S, S) /\ \A a \in S : NoBreak(a) => NoBreak(safe[a])
    BY <1>1, SafeType
  <2>2. lines \in Seq(S) /\ \A k \in 1 .. n : lines[k] \in S /\ NoBreak(lines[k])
    BY DEF AreLines
  <2> HIDE DEF safe, S
  <2>3. Y \in Seq(S) /\ Len(Y) = n
    BY <2>1, <2>2, EachType
  <2>4. \A k \in 1 .. n : Y[k] = safe[lines[k]]
    BY <2>2 DEF Each
  <2>5. n # 0
    BY <2>2
  <2> HIDE DEF Y, n
  <2>6. \A k \in 1 .. Len(Y) : NoBreak(Y[k])
    BY <2>1, <2>2, <2>3, <2>4
  <2>7. Y # <<>>
    BY <2>3, <2>5
  <2> QED BY <2>3, <2>6, <2>7 DEF AreLines, S
<1>4. h \in S /\ IsLine(h) /\ lines \in Seq(S)
  BY <1>1, <1>3, AnswerFile, AnswerHeaderLine DEF AreLines
<1> DEFINE all == Answer(h, Y)
<1>5. AreLines(all, T)
  BY <1>1, <1>3, AnswerFile
<1>6. file = Flattened(Translate(T, windows), Written(all))
  BY <1>1, <1>2, <1>3, AnswerOnDisk
<1>7. Each(ReceivedOf(T, windows), all) = Answer(h, N)
  BY <1>1, <1>4, AnswerReceived
<1> HIDE DEF all, file
<1>8. Lines(file) = Answer(h, N)
  BY <1>1, <1>5, <1>6, <1>7, TextReceived
<1>9. N \in Seq(Seq(T)) /\ N # <<>> /\ Join(N) # <<>>
  BY <1>1, NetText
<1> HIDE DEF h, N, Y
<1> DEFINE got == Answer(h, N)
<1>10. /\ got # <<>> /\ Len(got) = Len(N) + 2 /\ got[1] = h /\ Last(got) = End
       /\ SubSeq(got, 2, Len(got) - 1) = N
  BY <1>1, <1>4, <1>9, AnswerParts
<1>11. Len(N) \in Nat /\ ~(Len(N) + 2 < 2)
  BY <1>9
<1> DEFINE f == Split(h, "|", Len(h) + 1)
<1>12. Len(f) = 4 /\ f[1] = <<"v1">> /\ f[2] = <<"7">> /\ f[3] = <<"s">> /\ f[4] = <<status>>
  BY <1>1, AnswerFields DEF h
<1> HIDE DEF got, f
<1>13. Lines(file) = got /\ Split(got[1], "|", Len(got[1]) + 1) = f
  BY <1>8, <1>10 DEF got, f
<1>14. <<"s">> # <<>> /\ <<status>> \in {<<"ok">>, <<"error">>}
  OBVIOUS
<1>15. ParseResponse(file) = <<f[2], f[3], f[4], Join(N)>>
  BY <1>9, <1>10, <1>11, <1>12, <1>13, <1>14 DEF ParseResponse, End
<1> QED BY <1>12, <1>15 DEF file, N

---------------------------------------------------------------------------
(***************************************************************************)
(* What can be seen of a text                                              *)
(***************************************************************************)
\* What is shown of a token.
ShowOf(T) == [c \in T |-> IF c \notin {"\r", "[", "]"} THEN <<c>> ELSE <<>>]

\* What is visible of a text is what is shown of its tokens.
LEMMA VisibleText ==
    ASSUME NEW T
    PROVE  /\ Maps(ShowOf(T), T, Seq(T))
           /\ \A text \in Seq(T) : Visible(text) = Flattened(ShowOf(T), text)
<1> DEFINE S == Seq(T)
<1>1. \A c \in T : <<c>> \in S
  OBVIOUS
<1>2. <<>> \in S
  OBVIOUS
<1> HIDE DEF S
<1>3. \A c \in T : (IF c \notin {"\r", "[", "]"} THEN <<c>> ELSE <<>>) \in S
  BY <1>1, <1>2
<1>4. Maps(ShowOf(T), T, S)
  BY <1>3 DEF Maps, ShowOf
<1>5. ASSUME NEW text \in Seq(T) PROVE Visible(text) = Flattened(ShowOf(T), text)
  <2>1. \A i \in DOMAIN text : text[i] \in T
    OBVIOUS
  <2>2. [i \in DOMAIN text |-> IF text[i] \notin {"\r", "[", "]"} THEN <<text[i]>> ELSE <<>>]
          = Each(ShowOf(T), text)
    BY <2>1 DEF Each, ShowOf
  <2> QED BY <2>2 DEF Visible, Keep, Flattened
<1> QED BY <1>4, <1>5 DEF S

\* The visible parts of two texts.
LEMMA VisibleCat ==
    ASSUME NEW T, NEW s \in Seq(T), NEW t \in Seq(T)
    PROVE  Visible(Cat(s, t)) = Cat(Visible(s), Visible(t)) /\ Visible(s) \in Seq(T)
<1> DEFINE f == ShowOf(T)
           u == Cat(s, t)
<1>1. Maps(f, T, Seq(T)) /\ \A text \in Seq(T) : Visible(text) = Flattened(f, text)
  BY VisibleText
<1>2. u \in Seq(T)
  BY CatParts
<1> HIDE DEF f
<1>3. Flattened(f, s) \in Seq(T) /\ Flattened(f, Cat(s, t)) = Cat(Flattened(f, s), Flattened(f, t))
  BY <1>1, FlattenedConcat
<1>4. Visible(u) = Flattened(f, u)
  BY <1>1, <1>2
<1> QED BY <1>1, <1>3, <1>4

\* A text of one token.
LEMMA VisibleOne ==
    ASSUME NEW c PROVE Visible(<<c>>) = IF c \notin {"\r", "[", "]"} THEN <<c>> ELSE <<>>
<1> DEFINE T == {c}
           f == ShowOf(T)
           one == <<c>>
<1>1. c \in T /\ one \in Seq(T)
  OBVIOUS
<1>2. Maps(f, T, Seq(T)) /\ \A text \in Seq(T) : Visible(text) = Flattened(f, text)
  BY VisibleText
<1>3. f[c] = IF c \notin {"\r", "[", "]"} THEN <<c>> ELSE <<>>
  BY <1>1 DEF ShowOf
<1> HIDE DEF f, T
<1>4. Flattened(f, <<c>>) = f[c]
  BY <1>1, <1>2, FlattenedOne
<1>5. Visible(one) = Flattened(f, one)
  BY <1>1, <1>2
<1> QED BY <1>3, <1>4, <1>5

\* A carriage return cannot be seen.
LEMMA VisibleChomp ==
    ASSUME NEW T, "\r" \in T, NEW a \in Seq(T) PROVE Visible(Chomp(a)) = Visible(a)
<1>1. CASE a # <<>> /\ Last(a) = "\r"
  <2>1. PICK f \in Seq(T), b \in T : a = Append(f, b)
    BY <1>1, SequenceEmptyOrAppend
  <2>2. Last(a) = b /\ Front(a) = f
    BY <2>1 DEF Last, Front
  <2> DEFINE return == <<"\r">>
             v == Visible(f)
  <2>3. return \in Seq(T)
    OBVIOUS
  <2>4. a = Cat(f, return)
    BY <1>1, <2>1, <2>2, AppendIsConcat DEF Cat
  <2>5. Visible(return) = <<>>
    BY VisibleOne
  <2> HIDE DEF return
  <2>6. Visible(a) = Cat(v, Visible(return)) /\ v \in Seq(T)
    BY <2>3, <2>4, VisibleCat
  <2> HIDE DEF v
  <2>7. Cat(v, <<>>) = v
    BY <2>6 DEF Cat
  <2> QED BY <1>1, <2>2, <2>5, <2>6, <2>7 DEF Chomp, v
<1>2. CASE ~(a # <<>> /\ Last(a) = "\r")
  BY <1>2 DEF Chomp
<1> QED BY <1>1, <1>2

\* Nor can the brackets around the end of a file.
LEMMA VisibleGuarded == ASSUME NEW a PROVE Visible(Guarded(a)) = Visible(a)
<1> DEFINE left == <<"[">>
           right == <<"]">>
           end == <<"[", "END", "]">>
           T == {"[", "END", "]"}
<1>1. left \in Seq(T) /\ right \in Seq(T) /\ End \in Seq(T)
  BY DEF End
<1>2. end = Cat(Cat(left, End), right)
  BY JoinedPair, JoinedThree DEF Cat, End
<1>3. Visible(left) = <<>> /\ Visible(right) = <<>> /\ Visible(End) = End
  BY VisibleOne DEF End
<1>4. Cat(<<>>, End) = End /\ Cat(End, <<>>) = End
  BY <1>1 DEF Cat
<1> HIDE DEF left, right, T, end
<1>5. Visible(Cat(left, End)) = End
  BY <1>1, <1>3, <1>4, VisibleCat
<1>6. Cat(left, End) \in Seq(T)
  BY <1>1, CatParts
<1>7. Visible(end) = End
  BY <1>1, <1>2, <1>3, <1>4, <1>5, <1>6, VisibleCat
<1> QED BY <1>3, <1>7 DEF Guarded, end

\* A line as it arrives looks the same.
LEMMA VisibleNet ==
    ASSUME NEW T, "[" \in T, "]" \in T, "END" \in T, "\r" \in T, NEW windows \in BOOLEAN,
           NEW a \in Seq(T)
    PROVE  Visible(NetOf(T, windows)[a]) = Visible(a)
<1> DEFINE c == Chomp(a)
           g == Guarded(c)
<1>1. c \in Seq(T) /\ Visible(c) = Visible(a)
  BY ChompType, VisibleChomp
<1>2. SafeOf(T)[a] = g /\ Maps(SafeOf(T), Seq(T), Seq(T))
  BY SafeType DEF SafeOf
<1> HIDE DEF c
<1>3. g \in Seq(T) /\ Visible(g) = Visible(c)
  <2> DEFINE f == SafeOf(T)
             S == Seq(T)
  <2>1. f[a] = g /\ Maps(f, S, S) /\ a \in S
    BY <1>2
  <2> HIDE DEF f, S
  <2>2. g \in S
    BY <2>1 DEF Maps
  <2> QED BY <2>2, VisibleGuarded DEF S
<1> HIDE DEF g
<1>4. Visible(Received(g, windows)) = Visible(g)
  BY <1>3, VisibleChomp DEF Received
<1>5. NetOf(T, windows)[a] = Received(g, windows)
  BY DEF NetOf, g, c
<1> QED BY <1>1, <1>3, <1>4, <1>5

\* Lines that look the same make texts that look the same.
LEMMA VisibleJoin ==
    ASSUME NEW T, "\n" \in T, NEW f, Maps(f, Seq(T), Seq(T)),
           \A a \in Seq(T) : Visible(f[a]) = Visible(a), NEW lines \in Seq(Seq(T)), lines # <<>>
    PROVE  Visible(Join(Each(f, lines))) = Visible(Join(lines))
<1> DEFINE S == Seq(T)
           Is(l) == /\ Each(f, l) \in Seq(S) /\ (l # <<>> => Each(f, l) # <<>>)
                    /\ l # <<>> => Visible(Join(Each(f, l))) = Visible(Join(l))
           G == {l \in Seq(S) : Is(l)}
<1>1. Maps(f, S, S) /\ \A a \in S : Visible(f[a]) = Visible(a) /\ f[a] \in S
  BY DEF Maps
<1>2. <<>> \in G
  <2>1. <<>> \in Seq(S)
    OBVIOUS
  <2> QED BY <2>1, EachNone
<1>3. ASSUME NEW l \in Seq(S), l \in G, NEW a \in S PROVE Append(l, a) \in G
  <2> DEFINE u == Append(l, a)
             d == Each(f, l)
             b == f[a]
             v == Append(d, b)
  <2>1. b \in S /\ Visible(b) = Visible(a)
    BY <1>1
  <2>2. Each(f, u) = v /\ d \in Seq(S)
    <3> HIDE DEF S
    <3> QED BY <1>1, EachAppend, EachType
  <2>3. u \in Seq(S) /\ u # <<>>
    <3> HIDE DEF S
    <3> QED BY AppendParts
  <2>4. l # <<>> => d # <<>> /\ Visible(Join(d)) = Visible(Join(l))
    BY <1>3
  <2> HIDE DEF d, b
  <2>5. v \in Seq(S) /\ v # <<>>
    <3> HIDE DEF S
    <3>1. d \in Seq(S) /\ b \in S
      BY <2>1, <2>2
    <3> QED BY <3>1, AppendParts
  <2>6. CASE l = <<>>
    <3>1. d = <<>>
      BY <2>6, EachNone DEF d
    <3>2. u = <<a>> /\ v = <<b>>
      BY <2>6, <3>1
    <3>3. Join(<<a>>) = a /\ Join(<<b>>) = b
      BY <2>1, JoinOne
    <3> HIDE DEF u, v
    <3>4. Visible(Join(v)) = Visible(Join(u))
      BY <2>1, <3>2, <3>3
    <3> QED BY <2>2, <2>3, <2>5, <3>4 DEF u
  <2>7. CASE l # <<>>
    <3> DEFINE p == Join(l)
               q == Join(d)
    <3>1. l \in Seq(Seq(T)) /\ d \in Seq(Seq(T)) /\ d # <<>> /\ a \in Seq(T) /\ b \in Seq(T)
          /\ Break \in Seq(T)
      BY <2>1, <2>2, <2>4, <2>7 DEF Break
    <3>2. p \in Seq(T) /\ Join(u) = Cat(Cat(p, Break), a)
      BY <2>7, <3>1, JoinAppend
    <3>3. q \in Seq(T) /\ Join(v) = Cat(Cat(q, Break), b)
      BY <3>1, JoinAppend
    <3>4. Visible(q) = Visible(p)
      BY <2>4, <2>7
    <3> HIDE DEF p, q, u, v
    <3> DEFINE pb == Cat(p, Break)
               qb == Cat(q, Break)
    <3>5. pb \in Seq(T) /\ qb \in Seq(T)
      BY <3>1, <3>2, <3>3, CatRegroup
    <3>6. Visible(pb) = Visible(qb)
      BY <3>1, <3>2, <3>3, <3>4, VisibleCat
    <3> HIDE DEF pb, qb
    <3>7. Visible(Cat(pb, a)) = Visible(Cat(qb, b))
      BY <2>1, <3>1, <3>5, <3>6, VisibleCat
    <3>8. Visible(Join(v)) = Visible(Join(u))
      BY <3>2, <3>3, <3>7 DEF pb, qb
    <3> QED BY <2>2, <2>3, <2>5, <3>8 DEF u
  <2> QED BY <2>6, <2>7
<1> HIDE DEF G, S
<1>4. lines \in G
  BY <1>2, <1>3, ListInduction DEF S
<1> QED BY <1>4 DEF G

---------------------------------------------------------------------------
(***************************************************************************)
(* The mark of the sources                                                 *)
(***************************************************************************)
\* A text without the mark of the sources is shown as it is.
LEMMA NoSources ==
    ASSUME NEW V, "SOURCES" \notin V, NEW text \in Seq(V)
    PROVE  SplitSources(text) = [text |-> text, heading |-> <<>>, sources |-> <<>>]
<1> DEFINE at == {i \in DOMAIN text : i + 3 <= Len(text) /\ SubSeq(text, i, i + 3) = Separator}
<1>1. at = {}
  <2> SUFFICES ASSUME NEW i \in DOMAIN text, i + 3 <= Len(text),
                      SubSeq(text, i, i + 3) = Separator
               PROVE  FALSE
    OBVIOUS
  <2>1. i \in Nat /\ i >= 1 /\ i + 2 <= Len(text) /\ Len(text) \in Nat
    OBVIOUS
  <2>2. text[i + 2] \in V
    BY <2>1
  <2> DEFINE m == i + 3
             part == SubSeq(text, i, m)
  <2>4. /\ m \in Nat /\ m <= Len(text) /\ i + 4 = m + 1 /\ i \in 1 .. Len(text)
        /\ 4 \in Nat /\ 3 \in 1 .. 4 /\ i + 3 - 1 = i + 2
    BY <2>1
  <2> HIDE DEF m
  <2>7. IsPart(part, text, i, 4, V)
    BY <2>4, PartIs
  <2>3. \A k \in 1 .. 4 : part[k] = text[i + k - 1]
    <3> HIDE DEF part
    <3> QED BY <2>7 DEF IsPart
  <2> HIDE DEF part
  <2>5. part[3] = text[i + 2]
    BY <2>3, <2>4
  <2>6. part[3] = "SOURCES"
    <3>1. Separator[3] = "SOURCES"
      BY DEF Separator
    <3> QED BY <3>1 DEF part, m
  <2> QED BY <2>2, <2>5, <2>6
<1>2. BlockAt(text) = 0
  BY <1>1 DEF BlockAt
<1> QED BY <1>2 DEF SplitSources

\* The parts of a text with that mark.
IsMarked(t, P, Q) ==
    /\ Len(P) \in Nat /\ Len(Q) \in Nat /\ Len(t) = Len(P) + 4 + Len(Q)
    /\ \A i \in 1 .. Len(P) : t[i] = P[i]
    /\ \A i \in 1 .. 4 : t[Len(P) + i] = Separator[i]
    /\ \A i \in 1 .. Len(Q) : t[Len(P) + 4 + i] = Q[i]

\* They are a text again.
LEMMA MarkedParts ==
    ASSUME NEW V, "\n" \in V, NEW P \in Seq(V), NEW Q \in Seq(V)
    PROVE  /\ Cat(Cat(P, Separator), Q) \in Seq(V \cup {"SOURCES"})
           /\ IsMarked(Cat(Cat(P, Separator), Q), P, Q)
<1> DEFINE T == V \cup {"SOURCES"}
           u == Cat(P, Separator)
           t == Cat(u, Q)
           p == Len(P)
           q == Len(Q)
<1>1. P \in Seq(T) /\ Q \in Seq(T)
  <2>1. V \subseteq T
    OBVIOUS
  <2> HIDE DEF T
  <2> QED BY <2>1, WiderSeq
<1>2. Separator \in Seq(T)
  BY DEF Separator
<1>14. Len(Separator) = 4
  BY DEF Separator
<1> HIDE DEF T
<1>3. u \in Seq(T)
  BY <1>1, <1>2, CatParts
<1>4. Len(u) = p + 4 /\ p \in Nat
  <2>1. Len(u) = p + Len(Separator) /\ p \in Nat
    BY <1>1, <1>2, CatParts
  <2> HIDE DEF u, p
  <2> QED BY <1>14, <2>1
<1>5. \A i \in 1 .. p : u[i] = P[i]
  BY <1>1, <1>2, CatParts
<1>6. \A i \in 1 .. Len(Separator) : u[p + i] = Separator[i]
  BY <1>1, <1>2, CatParts
<1> HIDE DEF u
<1>7. t \in Seq(T)
  BY <1>1, <1>3, CatParts
<1>8. Len(t) = Len(u) + q /\ q \in Nat
  BY <1>1, <1>3, CatParts
<1>9. \A i \in 1 .. Len(u) : t[i] = u[i]
  BY <1>1, <1>3, CatParts
<1>10. \A i \in 1 .. q : t[Len(u) + i] = Q[i]
  BY <1>1, <1>3, CatParts
<1> HIDE DEF t, p, q
<1>11. \A i \in 1 .. p : t[i] = P[i]
  BY <1>4, <1>5, <1>9
<1>12. \A i \in 1 .. 4 : t[p + i] = Separator[i]
  <2>1. \A i \in 1 .. 4 : p + i \in 1 .. Len(u)
    BY <1>4
  <2> QED BY <1>6, <1>9, <1>14, <2>1
<1>13. Len(t) = p + 4 + q /\ \A i \in 1 .. q : t[p + 4 + i] = Q[i]
  BY <1>4, <1>8, <1>10
<1> QED BY <1>4, <1>7, <1>8, <1>11, <1>12, <1>13 DEF IsMarked, t, u, p, q, T

\* The four tokens of the mark.
LEMMA MarkTokens ==
    /\ Separator[1] = "\n" /\ Separator[2] = "\n" /\ Separator[3] = "SOURCES"
    /\ Separator[4] = "\n" /\ Len(Separator) = 4 /\ Separator \in Seq({"\n", "SOURCES"})
BY DEF Separator

\* The place of the mark, what is before it and what is after it.
MarkAt(t, P, Q) ==
    /\ BlockAt(t) = Len(P) + 1
    /\ SubSeq(t, 1, Len(P)) = P
    /\ SubSeq(t, Len(P) + 5, Len(t)) = Q

\* It is found: there is one.
LEMMA MarkFound ==
    ASSUME NEW V, "\n" \in V, "SOURCES" \notin V, NEW P \in Seq(V), NEW Q \in Seq(V)
    PROVE  MarkAt(Cat(Cat(P, Separator), Q), P, Q)
<1> DEFINE T == V \cup {"SOURCES"}
           t == Cat(Cat(P, Separator), Q)
           p == Len(P)
           q == Len(Q)
<1>17. t \in Seq(T)
  BY MarkedParts
<1>18. IsMarked(t, P, Q)
  BY MarkedParts
<1> HIDE DEF t, T
<1>1. t \in Seq(T) /\ p \in Nat /\ q \in Nat /\ Len(t) = p + 4 + q
  BY <1>17, <1>18 DEF IsMarked
<1>2. \A i \in 1 .. p : t[i] = P[i]
  BY <1>18 DEF IsMarked
<1>3. \A i \in 1 .. 4 : t[p + i] = Separator[i]
  BY <1>18 DEF IsMarked
<1>4. \A i \in 1 .. q : t[p + 4 + i] = Q[i]
  BY <1>18 DEF IsMarked
<1> USE DEF t, T
<1>5. \A i \in 1 .. p : P[i] \in V
  OBVIOUS
<1>6. \A i \in 1 .. q : Q[i] \in V
  OBVIOUS
<1>7. P \in Seq(T) /\ Q \in Seq(T)
  <2>1. V \subseteq T
    OBVIOUS
  <2> HIDE DEF T
  <2> QED BY <2>1, WiderSeq
<1>8. DOMAIN t = 1 .. Len(t) /\ \A i \in 1 .. Len(t) : t[i] \in T
  <2> HIDE DEF t, T
  <2> QED BY <1>1
<1>16. Separator \in Seq(T)
  <2> DEFINE M == {"\n", "SOURCES"}
  <2>1. M \subseteq T
    OBVIOUS
  <2> HIDE DEF M, T
  <2>2. Separator \in Seq(M)
    BY MarkTokens DEF M
  <2> QED BY <2>1, <2>2, WiderSeq
<1> HIDE DEF t, p, q, T
<1>9. ASSUME NEW i \in 1 .. Len(t), NEW n \in Nat, i + n <= Len(t) + 1
      PROVE  LET s == SubSeq(t, i, i + n - 1) IN
             s \in Seq(T) /\ Len(s) = n /\ \A k \in 1 .. n : s[k] = t[i + k - 1]
  <2> DEFINE m == i + n - 1
             s == SubSeq(t, i, m)
  <2>1. /\ i \in Nat /\ i >= 1 /\ m \in Int /\ m <= Len(t) /\ m - i + 1 = n
        /\ \A j \in i .. m : j \in 1 .. Len(t)
    BY <1>1, <1>9
  <2>2. \A j \in i .. m : t[j] \in T
    BY <1>8, <2>1
  <2> HIDE DEF m
  <2>3. /\ s \in Seq(T) /\ Len(s) = (IF i <= m THEN m - i + 1 ELSE 0)
        /\ \A k \in 1 .. m - i + 1 : s[k] = t[i + k - 1]
    BY <2>1, <2>2, SubSeqProperties
  <2>4. Len(s) = n
    <3> HIDE DEF s
    <3> QED BY <2>1, <2>3
  <2> HIDE DEF s
  <2> QED BY <2>1, <2>3, <2>4 DEF s, m
<1>10. SubSeq(t, p + 1, p + 4) = Separator
  <2> DEFINE s == SubSeq(t, p + 1, p + 4)
  <2>1. p + 1 \in 1 .. Len(t) /\ 4 \in Nat /\ (p + 1) + 4 <= Len(t) + 1 /\ (p + 1) + 4 - 1 = p + 4
    BY <1>1
  <2>2. s \in Seq(T) /\ Len(s) = 4 /\ \A k \in 1 .. 4 : s[k] = t[(p + 1) + k - 1]
    <3> DEFINE i == p + 1
               r == SubSeq(t, i, i + 4 - 1)
    <3>1. i \in 1 .. Len(t) /\ 4 \in Nat /\ i + 4 <= Len(t) + 1
      BY <2>1
    <3>2. r = s
      BY <2>1
    <3> HIDE DEF i, s
    <3>3. r \in Seq(T) /\ Len(r) = 4 /\ \A k \in 1 .. 4 : r[k] = t[i + k - 1]
      BY <1>9, <3>1
    <3> HIDE DEF r
    <3> QED BY <3>2, <3>3 DEF i
  <2> HIDE DEF s
  <2>3. \A k \in 1 .. 4 : s[k] = Separator[k]
    <3>1. \A k \in 1 .. 4 : (p + 1) + k - 1 = p + k
      BY <1>1
    <3> QED BY <1>3, <2>2, <3>1
  <2>4. s = Separator
    BY <1>16, <2>2, <2>3, MarkTokens, SeqEqual
  <2> QED BY <2>4 DEF s
<1> DEFINE at == {i \in DOMAIN t : i + 3 <= Len(t) /\ SubSeq(t, i, i + 3) = Separator}
<1>11. p + 1 \in at
  BY <1>1, <1>8, <1>10
<1>12. \A i \in at : i = p + 1
  <2> SUFFICES ASSUME NEW i \in 1 .. Len(t), i + 3 <= Len(t),
                      SubSeq(t, i, i + 3) = Separator
               PROVE  i = p + 1
    BY <1>8
  <2> DEFINE s == SubSeq(t, i, i + 3)
             j == i + 2
  <2>1. 4 \in Nat /\ i + 4 <= Len(t) + 1 /\ i + 4 - 1 = i + 3 /\ i + 3 - 1 = j /\ 3 \in 1 .. 4
    BY <1>1
  <2>2. \A k \in 1 .. 4 : s[k] = t[i + k - 1]
    BY <1>9, <2>1
  <2>3. s[3] = "SOURCES"
    BY MarkTokens
  <2> HIDE DEF s
  <2>4. t[j] = "SOURCES"
    <3>1. s[3] = t[i + 3 - 1]
      BY <2>1, <2>2
    <3> QED BY <2>1, <2>3, <3>1
  <2>5. j \in 1 .. p \/ j = p + 1 \/ j = p + 2 \/ j = p + 3 \/ j = p + 4
        \/ (j - (p + 4) \in 1 .. q /\ p + 4 + (j - (p + 4)) = j)
    BY <1>1
  <2>6. j \notin 1 .. p
    BY <1>2, <1>5, <2>4
  <2>7. ~(j - (p + 4) \in 1 .. q /\ p + 4 + (j - (p + 4)) = j)
    <3> SUFFICES ASSUME j - (p + 4) \in 1 .. q, p + 4 + (j - (p + 4)) = j PROVE FALSE
      OBVIOUS
    <3> DEFINE k == j - (p + 4)
    <3>1. t[p + 4 + k] = Q[k] /\ Q[k] \in V
      BY <1>4, <1>6
    <3> QED BY <2>4, <3>1
  <2>8. t[p + 1] = "\n" /\ t[p + 2] = "\n" /\ t[p + 4] = "\n"
    <3>1. 1 \in 1 .. 4 /\ 2 \in 1 .. 4 /\ 4 \in 1 .. 4
      OBVIOUS
    <3> QED BY <1>3, <3>1, MarkTokens
  <2>9. j = p + 3
    BY <2>4, <2>5, <2>6, <2>7, <2>8
  <2> QED BY <1>1, <2>9
<1>13. BlockAt(t) = p + 1
  <2> HIDE DEF at
  <2>1. at = {p + 1}
    BY <1>11, <1>12
  <2>2. p + 1 \in Int
    BY <1>1
  <2>3. Max(at) = p + 1
    <3>1. at \in SUBSET Int /\ p + 1 \in at /\ \A y \in at : y <= p + 1
      BY <2>1, <2>2
    <3> QED BY <3>1, MaxTop
  <2>4. at # {}
    BY <2>1
  <2> QED BY <2>3, <2>4 DEF BlockAt, at
<1> HIDE DEF at
<1>14. SubSeq(t, 1, p) = P
  <2> DEFINE s == SubSeq(t, 1, p)
  <2>1. 1 \in 1 .. Len(t) /\ 1 + p <= Len(t) + 1 /\ 1 + p - 1 = p
    BY <1>1
  <2>2. s \in Seq(T) /\ Len(s) = p /\ \A k \in 1 .. p : s[k] = t[1 + k - 1]
    BY <1>1, <1>9, <2>1
  <2> HIDE DEF s
  <2>3. \A k \in 1 .. p : s[k] = P[k]
    <3>1. \A k \in 1 .. p : 1 + k - 1 = k
      BY <1>1
    <3> QED BY <1>2, <2>2, <3>1
  <2>4. Len(P) = p
    BY DEF p
  <2>5. s = P
    BY <1>7, <2>2, <2>3, <2>4, SeqEqual
  <2> QED BY <2>5 DEF s
<1>15. SubSeq(t, p + 5, Len(t)) = Q
  <2>0. CASE q = 0
    <3> DEFINE s == SubSeq(t, p + 5, Len(t))
    <3>1. p + 5 \in Int /\ Len(t) \in Int /\ ~(p + 5 <= Len(t)) /\ \A j \in p + 5 .. Len(t) : t[j] \in T
      BY <1>1, <2>0
    <3>2. s \in Seq(T) /\ Len(s) = (IF p + 5 <= Len(t) THEN Len(t) - (p + 5) + 1 ELSE 0)
      BY <3>1, SubSeqProperties
    <3> HIDE DEF s
    <3>3. Len(s) = 0 /\ Len(Q) = 0
      BY <2>0, <3>1, <3>2 DEF q
    <3>4. \A k \in 1 .. 0 : s[k] = Q[k]
      OBVIOUS
    <3>5. s = Q
      BY <1>7, <3>2, <3>3, <3>4, SeqEqual
    <3> QED BY <3>5 DEF s
  <2> DEFINE s == SubSeq(t, p + 5, Len(t))
  <2>1. CASE q # 0
    <3>1. p + 5 \in 1 .. Len(t) /\ (p + 5) + q <= Len(t) + 1 /\ (p + 5) + q - 1 = Len(t)
      BY <1>1, <2>1
    <3>2. s \in Seq(T) /\ Len(s) = q /\ \A k \in 1 .. q : s[k] = t[(p + 5) + k - 1]
      BY <1>1, <1>9, <3>1
    <3> HIDE DEF s
    <3>3. \A k \in 1 .. q : s[k] = Q[k]
      <4>1. \A k \in 1 .. q : (p + 5) + k - 1 = p + 4 + k
        BY <1>1
      <4> QED BY <1>4, <3>2, <4>1
    <3>4. Len(Q) = q
      BY DEF q
    <3>5. s = Q
      BY <1>7, <3>2, <3>3, <3>4, SeqEqual
    <3> QED BY <3>5 DEF s
  <2> QED BY <2>0, <2>1
<1> QED BY <1>13, <1>14, <1>15 DEF MarkAt, t, p

\* Lines that are not empty and end with no carriage return are read as they are.
LEMMA JoinedLines ==
    ASSUME NEW T, "\n" \in T, NEW lines \in Seq(Seq(T)), lines # <<>>,
           \A k \in 1 .. Len(lines) : IsLine(lines[k]) /\ lines[k] # <<>>
    PROVE  Join(lines) \in Seq(T) /\ Lines(Join(lines)) = lines
<1> DEFINE S == Seq(T)
<1>1. PICK l \in Seq(S), a \in S : lines = Append(l, a)
  BY SequenceEmptyOrAppend
<1>2. l \in Seq(Seq(T)) /\ a \in Seq(T)
  OBVIOUS
<1> DEFINE m == Len(l)
           w == Written(l)
<1>3. m \in Nat /\ Len(lines) = m + 1 /\ lines[m + 1] = a /\ \A k \in 1 .. m : lines[k] = l[k]
  <2> HIDE DEF S
  <2> QED BY <1>1, AppendParts
<1>4. Join(lines) = w \o a /\ w \in Seq(T)
  BY <1>1, <1>2, JoinWritten, WrittenAppend
<1>5. IsLine(a) /\ a # <<>> /\ \A k \in 1 .. m : IsLine(l[k])
  <2> HIDE DEF m
  <2>1. m + 1 \in 1 .. Len(lines) /\ \A k \in 1 .. m : k \in 1 .. Len(lines)
    BY <1>3
  <2> QED BY <1>3, <2>1
<1>6. Lines(w \o a) = lines
  BY <1>1, <1>2, <1>5, UnendedRead
<1>7. w \o a \in Seq(T)
  BY <1>2, <1>4, CatParts DEF Cat
<1> QED BY <1>4, <1>6, <1>7

\* Labels are not skipped.
LEMMA LabelsKept ==
    ASSUME NEW S, NEW s \in Seq(S), \A k \in 1 .. Len(s) : s[k] # <<>>
    PROVE  Keep(s, LAMBDA line : line # <<>>) = s
<1> DEFINE n == Len(s)
           L == {a \in S : a # <<>>}
<1>1. n \in Nat /\ DOMAIN s = 1 .. n /\ s = [i \in 1 .. n |-> s[i]]
      /\ \A i \in 1 .. n : s[i] \in S
  OBVIOUS
<1>2. \A i \in 1 .. n : s[i] \in L /\ s[i] # <<>>
  BY <1>1
<1> HIDE DEF n, L
<1>3. s \in Seq(L)
  BY <1>1, <1>2, ListOf
<1>4. Selected(s, L) = s
  BY <1>3, SelectedAll
<1>5. [i \in DOMAIN s |-> IF s[i] # <<>> THEN <<s[i]>> ELSE <<>>]
        = [i \in DOMAIN s |-> IF s[i] \in L THEN <<s[i]>> ELSE <<>>]
  BY <1>1, <1>2
<1> QED BY <1>4, <1>5 DEF Keep, Selected

\* The plugin shows the text before the mark, the line below it, and a pill for each
\* line that follows.
LEMMA PillsShown ==
    ASSUME NEW V, "\n" \in V, "SOURCES" \notin V, NEW P \in Seq(V),
           NEW hx \in Seq(V), IsLine(hx), hx # <<>>,
           NEW s \in Seq(Seq(V)), s # <<>>,
           \A k \in 1 .. Len(s) : IsLine(s[k]) /\ s[k] # <<>>,
           MaxSources \in Nat, Len(s) <= MaxSources
    PROVE  SplitSources(Cat(Cat(P, Separator), Join(Cat(<<hx>>, s))))
             = [text |-> P, heading |-> hx, sources |-> s]
<1> DEFINE S == Seq(V)
           lines == Cat(<<hx>>, s)
           Q == Join(lines)
           t == Cat(Cat(P, Separator), Q)
           n == Len(s)
<1>1. hx \in S /\ s \in Seq(S)
  OBVIOUS
<1> HIDE DEF S
<1>2. lines \in Seq(S) /\ Len(lines) = 1 + n /\ n \in Nat /\ lines[1] = hx
  <2>1. StartsWith(lines, hx, s, S)
    BY <1>1, CatStarts
  <2> HIDE DEF lines
  <2> QED BY <2>1 DEF StartsWith
<1>3. \A i \in 1 .. n : lines[1 + i] = s[i]
  <2>1. StartsWith(lines, hx, s, S)
    BY <1>1, CatStarts
  <2> HIDE DEF lines
  <2> QED BY <2>1 DEF StartsWith
<1>4. n # 0
  BY <1>1
<1>5. \A k \in 1 .. n : IsLine(s[k]) /\ s[k] # <<>>
  OBVIOUS
<1> HIDE DEF lines, n
<1>6. \A k \in 1 .. Len(lines) : IsLine(lines[k]) /\ lines[k] # <<>>
  <2> SUFFICES ASSUME NEW k \in 1 .. Len(lines) PROVE IsLine(lines[k]) /\ lines[k] # <<>>
    OBVIOUS
  <2>1. CASE k = 1
    BY <1>2, <2>1
  <2>2. CASE k # 1
    <3>1. k - 1 \in 1 .. n /\ 1 + (k - 1) = k
      BY <1>2, <2>2
    <3>2. lines[k] = s[k - 1]
      BY <1>3, <3>1
    <3> QED BY <1>5, <3>1, <3>2
  <2> QED BY <2>1, <2>2
<1>7. lines # <<>>
  <2>1. Len(lines) # 0
    BY <1>2
  <2> QED BY <2>1
<1>8. Q \in Seq(V) /\ Lines(Q) = lines
  BY <1>2, <1>6, <1>7, JoinedLines DEF S
<1> HIDE DEF Q
<1>17. MarkAt(t, P, Q)
  BY <1>8, MarkFound
<1> HIDE DEF t
<1>9. BlockAt(t) = Len(P) + 1 /\ SubSeq(t, 1, Len(P)) = P /\ SubSeq(t, Len(P) + 5, Len(t)) = Q
  BY <1>17 DEF MarkAt
<1>10. Tail(lines) = s
  <2> DEFINE u == Tail(lines)
  <2>1. u \in Seq(S) /\ Len(u) = Len(lines) - 1
    BY <1>2, <1>7, HeadTailProperties
  <2>2. \A i \in 1 .. Len(u) : u[i] = lines[i + 1]
    BY <1>2, <1>7, HeadTailProperties
  <2> HIDE DEF u
  <2>3. Len(u) = n /\ \A i \in 1 .. n : i + 1 = 1 + i
    BY <1>2, <2>1
  <2>4. \A i \in 1 .. n : u[i] = s[i]
    BY <1>3, <2>2, <2>3
  <2>5. Len(s) = n
    BY DEF n
  <2>6. u = s
    BY <1>1, <2>1, <2>3, <2>4, <2>5, SeqEqual
  <2> QED BY <2>6 DEF u
<1> DEFINE pills == Keep(Tail(lines), LAMBDA line : line # <<>>)
<1>11. pills = s
  BY <1>1, <1>5, <1>10, LabelsKept DEF n
<1> HIDE DEF pills
<1>12. SubSeq(pills, 1, Min({Len(pills), MaxSources})) = s
  <2> DEFINE M == {n, MaxSources}
  <2>1. M \in SUBSET Int /\ n \in M /\ \A y \in M : n <= y
    BY <1>2 DEF n
  <2> HIDE DEF M
  <2>2. Min(M) = n
    BY <2>1, MinBottom
  <2>3. SubSeq(s, 1, Len(s)) = s
    BY <1>1
  <2> QED BY <1>11, <2>2, <2>3 DEF M, n
<1>13. Len(P) \in Nat /\ Len(P) + 1 # 0 /\ (Len(P) + 1) + 4 = Len(P) + 5 /\ (Len(P) + 1) - 1 = Len(P)
  OBVIOUS
<1>14. s # <<>> /\ hx # <<>>
  OBVIOUS
<1>15. SplitSources(t)
         = [text |-> SubSeq(t, 1, BlockAt(t) - 1), heading |-> lines[1],
            sources |-> SubSeq(pills, 1, Min({Len(pills), MaxSources}))]
  <2>1. Lines(SubSeq(t, BlockAt(t) + 4, Len(t))) = lines
    BY <1>8, <1>9, <1>13
  <2>2. BlockAt(t) # 0
    BY <1>9, <1>13
  <2>3. lines[1] # <<>> /\ pills # <<>>
    BY <1>2, <1>11, <1>14
  <2> QED BY <1>7, <2>1, <2>2, <2>3 DEF SplitSources, pills
<1>16. SubSeq(t, 1, BlockAt(t) - 1) = P
  BY <1>9, <1>13
<1> QED BY <1>2, <1>12, <1>15, <1>16 DEF t, Q, lines

---------------------------------------------------------------------------
(***************************************************************************)
(* The lines of an answer                                                  *)
(***************************************************************************)
\* A text without the space around it.
LEMMA StripClosed ==
    ASSUME NEW T, NEW text \in Seq(T), Strip(text) # <<>>
    PROVE  Strip(text) \in Seq(T) /\ Closed(Strip(text))
<1> DEFINE n == Len(text)
           kept == {i \in DOMAIN text : text[i] \notin PythonSpace}
           a == Min(kept)
           b == Max(kept)
           s == SubSeq(text, a, b)
<1>1. n \in Nat /\ DOMAIN text = 1 .. n /\ \A i \in 1 .. n : text[i] \in T
  OBVIOUS
<1>2. kept \in SUBSET (1 .. n) /\ \A i \in kept : text[i] \notin PythonSpace
  BY <1>1
<1>3. kept # {} /\ Strip(text) = s
  <2>1. Strip(text) = IF kept = {} THEN <<>> ELSE s
    BY DEF Strip, StripSet
  <2> HIDE DEF kept, s
  <2> QED BY <2>1
<1> HIDE DEF kept
<1>4. a \in kept /\ \A y \in kept : a <= y
  BY <1>2, <1>3, MinExists
<1>5. b \in kept
  <2>1. kept \in SUBSET Int /\ n \in Int /\ \A y \in kept : y <= n
    BY <1>1, <1>2
  <2> QED BY <1>3, <2>1, MaxExists
<1>6. a \in 1 .. n /\ b \in 1 .. n /\ a <= b /\ text[a] \notin PythonSpace
      /\ text[b] \notin PythonSpace
  BY <1>2, <1>4, <1>5
<1> HIDE DEF a, b, n
<1>7. a \in Int /\ b \in Int /\ \A i \in a .. b : text[i] \in T
  BY <1>1, <1>6
<1>8. /\ s \in Seq(T) /\ Len(s) = (IF a <= b THEN b - a + 1 ELSE 0)
      /\ \A i \in 1 .. b - a + 1 : s[i] = text[a + i - 1]
  BY <1>7, SubSeqProperties
<1> HIDE DEF s
<1> DEFINE m == b - a + 1
<1>9. Len(s) = m /\ 1 \in 1 .. m /\ m \in 1 .. m /\ a + 1 - 1 = a /\ a + m - 1 = b
  BY <1>1, <1>6, <1>8
<1>10. s[1] = text[a] /\ s[m] = text[b]
  <2>1. s[1] = text[a + 1 - 1] /\ s[m] = text[a + m - 1]
    BY <1>8, <1>9
  <2> HIDE DEF m
  <2> QED BY <1>9, <2>1
<1>11. s # <<>>
  BY <1>8, <1>9
<1> QED BY <1>3, <1>6, <1>8, <1>9, <1>10, <1>11 DEF Closed

\* A text between two of that kind.
LEMMA ClosedAround ==
    ASSUME NEW T, NEW p \in Seq(T), Closed(p), NEW m \in Seq(T), NEW q \in Seq(T), Closed(q)
    PROVE  Cat(Cat(p, m), q) \in Seq(T) /\ Closed(Cat(Cat(p, m), q))
<1> DEFINE u == Cat(p, m)
           t == Cat(u, q)
<1>1. u \in Seq(T) /\ Len(u) = Len(p) + Len(m) /\ Len(p) \in Nat /\ Len(m) \in Nat
  BY CatParts
<1>2. \A i \in 1 .. Len(p) : u[i] = p[i]
  BY CatParts
<1> HIDE DEF u
<1>10. u \in Seq(T)
  BY <1>1
<1>3. t \in Seq(T) /\ Len(t) = Len(u) + Len(q) /\ Len(u) \in Nat /\ Len(q) \in Nat
  BY <1>10, CatParts
<1>4. \A i \in 1 .. Len(u) : t[i] = u[i]
  BY <1>10, CatParts
<1>5. \A i \in 1 .. Len(q) : t[Len(u) + i] = q[i]
  BY <1>10, CatParts
<1> HIDE DEF t
<1>6. Len(p) # 0 /\ Len(q) # 0
  BY DEF Closed
<1>7. 1 \in 1 .. Len(p) /\ 1 \in 1 .. Len(u) /\ Len(q) \in 1 .. Len(q)
  BY <1>1, <1>3, <1>6
<1>8. t[1] = p[1] /\ t[Len(t)] = q[Len(q)]
  BY <1>2, <1>3, <1>4, <1>5, <1>7
<1>9. t # <<>>
  BY <1>3, <1>6
<1> QED BY <1>3, <1>8, <1>9 DEF Closed, t, u

\* A list of three and one more.
LEMMA JoinedFour == ASSUME NEW a, NEW b, NEW c, NEW d
    PROVE  <<a, b, c>> \o <<d>> = <<a, b, c, d>>
<1> DEFINE s == <<a, b, c>>
           t == <<d>>
           u == <<a, b, c, d>>
           T == {a, b, c, d}
<1>1. s \in Seq(T) /\ t \in Seq(T) /\ u \in Seq(T) /\ Len(s) = 3 /\ Len(t) = 1 /\ Len(u) = 4
  OBVIOUS
<1>2. \A i \in 1 .. 3 : u[i] = s[i]
  OBVIOUS
<1>3. \A i \in 1 .. 1 : u[3 + i] = t[i]
  OBVIOUS
<1> HIDE DEF s, t, u, T
<1>4. \A i \in 1 .. Len(t) : u[Len(s) + i] = t[i]
  BY <1>1, <1>3
<1>5. Len(u) = Len(s) + Len(t) /\ \A i \in 1 .. Len(s) : u[i] = s[i]
  BY <1>1, <1>2
<1>6. s \o t = u
  BY <1>1, <1>4, <1>5, Joined
<1> QED BY <1>6 DEF s, t, u

\* The lines of the mark of the sources.
Marker == <<<<>>, <<"SOURCES">>>>

\* Between lines they make up the mark.
LEMMA MarkerText ==
    ASSUME NEW T, "\n" \in T, "SOURCES" \in T
    PROVE  /\ Marker \in Seq(Seq(T)) /\ Marker # <<>> /\ Separator \in Seq(T) /\ Break \in Seq(T)
           /\ Join(Marker) \in Seq(T) /\ Cat(Cat(Break, Join(Marker)), Break) = Separator
<1> DEFINE none == <<>>
           one == <<"SOURCES">>
           first == <<none>>
<1>1. none \in Seq(T) /\ one \in Seq(T) /\ Break \in Seq(T)
  BY DEF Break
<1>2. Marker = Append(first, one) /\ first \in Seq(Seq(T)) /\ first # <<>>
  BY DEF Marker
<1>3. Join(first) = none
  BY <1>1, JoinOne
<1>4. Cat(none, Break) = Break
  BY <1>1 DEF Cat
<1>5. Marker \in Seq(Seq(T)) /\ Marker # <<>> /\ Separator \in Seq(T)
  BY DEF Marker, Separator
<1>8. Cat(Break, one) = <<"\n", "SOURCES">>
  BY JoinedPair DEF Cat, Break
<1> HIDE DEF first, one, none
<1>6. Join(Marker) = Cat(Cat(Join(first), Break), one)
  BY <1>1, <1>2, JoinAppend
<1>7. Join(Marker) = <<"\n", "SOURCES">>
  BY <1>3, <1>4, <1>6, <1>8
<1> DEFINE m == Join(Marker)
           two == Cat(Break, Break)
           three == <<"\n", "\n", "SOURCES">>
<1>9. m \in Seq(T) /\ m = Cat(Break, one)
  BY <1>7, <1>8
<1> HIDE DEF m
<1>10. Cat(Break, m) = Cat(two, one)
  BY <1>1, <1>9, CatRegroup
<1>11. Cat(two, one) = three
  <2>1. two = <<"\n", "\n">>
    BY JoinedPair DEF Cat, Break
  <2> HIDE DEF two, three
  <2>2. Cat(<<"\n", "\n">>, one) = <<"\n", "\n", "SOURCES">>
    BY JoinedThree DEF Cat, one
  <2> QED BY <2>1, <2>2 DEF three
<1>12. Cat(three, Break) = Separator
  BY JoinedFour DEF Cat, Break, Separator
<1> HIDE DEF two, three
<1> QED BY <1>1, <1>5, <1>9, <1>10, <1>11, <1>12 DEF m

\* The mark between two texts.
LEMMA MarkedText ==
    ASSUME NEW T, "\n" \in T, "SOURCES" \in T, NEW u \in Seq(Seq(T)), u # <<>>,
           Join(u) \in Seq(T), NEW v \in Seq(Seq(T)), v # <<>>
    PROVE  Join(Cat(Cat(u, Marker), v)) = Cat(Cat(Join(u), Separator), Join(v))
<1> DEFINE S == Seq(T)
           p == Join(u)
           m == Join(Marker)
           x == Cat(u, Marker)
<1>1. /\ Marker \in Seq(S) /\ Marker # <<>> /\ Break \in S /\ m \in S
      /\ Cat(Cat(Break, m), Break) = Separator /\ p \in S
  BY MarkerText
<1>2. Join(x) = Cat(Cat(p, Break), m)
  BY <1>1, JoinConcat
<1>3. x \in Seq(S) /\ x # <<>>
  <2> HIDE DEF S
  <2>1. u \in Seq(S)
    BY DEF S
  <2>2. x \in Seq(S) /\ Len(x) = Len(u) + Len(Marker) /\ Len(u) \in Nat /\ Len(Marker) \in Nat
    BY <1>1, <2>1, CatParts
  <2>3. Len(u) # 0
    BY <2>1
  <2> HIDE DEF x
  <2> QED BY <2>2, <2>3
<1>4. Join(Cat(x, v)) = Cat(Cat(Join(x), Break), Join(v))
  BY <1>3, JoinConcat
<1> HIDE DEF m, p, x
<1> DEFINE bm == Cat(Break, m)
<1>5. Cat(Cat(p, Break), m) = Cat(p, bm) /\ bm \in S
  BY <1>1, CatRegroup
<1> HIDE DEF bm
<1>6. Cat(Cat(p, bm), Break) = Cat(p, Cat(bm, Break))
  BY <1>1, <1>5, CatRegroup
<1>7. Cat(bm, Break) = Separator
  BY <1>1 DEF bm
<1> QED BY <1>2, <1>4, <1>5, <1>6, <1>7 DEF x, p

\* Lines that follow lines.
LEMMA LinesConcat ==
    ASSUME NEW T, NEW u, AreLines(u, T), NEW v, AreLines(v, T) PROVE AreLines(Cat(u, v), T)
<1> DEFINE S == Seq(T)
           w == Cat(u, v)
<1>1. u \in Seq(S) /\ v \in Seq(S)
  BY DEF AreLines
<1>2. \A k \in 1 .. Len(u) : NoBreak(u[k])
  BY DEF AreLines
<1>3. \A k \in 1 .. Len(v) : NoBreak(v[k])
  BY DEF AreLines
<1> HIDE DEF S
<1>4. w \in Seq(S) /\ Len(w) = Len(u) + Len(v) /\ Len(u) \in Nat /\ Len(v) \in Nat
  BY <1>1, CatParts
<1>5. \A i \in 1 .. Len(u) : w[i] = u[i]
  BY <1>1, CatParts
<1>6. \A i \in 1 .. Len(v) : w[Len(u) + i] = v[i]
  BY <1>1, CatParts
<1> HIDE DEF w
<1>7. ASSUME NEW k \in 1 .. Len(w) PROVE NoBreak(w[k])
  <2>1. CASE k <= Len(u)
    BY <1>2, <1>4, <1>5, <2>1
  <2>2. CASE ~(k <= Len(u))
    <3> DEFINE i == k - Len(u)
    <3>1. i \in 1 .. Len(v) /\ Len(u) + i = k
      BY <1>4, <2>2
    <3> HIDE DEF i
    <3> QED BY <1>3, <1>6, <3>1
  <2> QED BY <2>1, <2>2
<1> QED BY <1>4, <1>7 DEF AreLines, S, w

\* A text without line breaks and carriage returns.
LEMMA PlainLine ==
    ASSUME NEW V, NEW a \in Seq(V \ {"\n", "\r"}) PROVE a \in Seq(V) /\ IsLine(a)
<1> DEFINE W == V \ {"\n", "\r"}
<1>1. \A i \in 1 .. Len(a) : a[i] \in W
  OBVIOUS
<1>2. a \in Seq(V)
  <2>1. W \subseteq V
    OBVIOUS
  <2> HIDE DEF W
  <2>2. a \in Seq(W)
    BY DEF W
  <2> QED BY <2>1, <2>2, WiderSeq
<1>3. NoBreak(a)
  BY <1>1 DEF NoBreak
<1>4. Chomp(a) = a
  <2>1. a # <<>> => Last(a) \in W
    BY <1>1 DEF Last
  <2> QED BY <2>1 DEF Chomp
<1> QED BY <1>2, <1>3, <1>4 DEF IsLine

\* Labels arrive as they are.
LEMMA NetLabels ==
    ASSUME NEW T, NEW windows \in BOOLEAN, NEW s \in Seq(Seq(T)),
           \A k \in 1 .. Len(s) : IsLine(s[k]) /\ s[k] # End
    PROVE  Each(NetOf(T, windows), s) = s
<1> DEFINE n == Len(s)
           net == NetOf(T, windows)
<1>1. n \in Nat /\ DOMAIN s = 1 .. n /\ s = [i \in 1 .. n |-> s[i]]
      /\ \A i \in 1 .. n : s[i] \in Seq(T)
  OBVIOUS
<1>2. \A a \in Seq(T) : net[a] = Received(Guarded(Chomp(a)), windows)
  BY DEF NetOf
<1> HIDE DEF net
<1>3. \A i \in 1 .. n : net[s[i]] = s[i]
  BY <1>1, <1>2 DEF IsLine, Guarded, Received
<1> HIDE DEF n
<1> QED BY <1>1, <1>3 DEF Each, net

\* So does the mark of the sources.
LEMMA NetMarker ==
    ASSUME NEW T, "\n" \in T, "SOURCES" \in T, NEW windows \in BOOLEAN
    PROVE  AreLines(Marker, T) /\ Each(NetOf(T, windows), Marker) = Marker
<1>1. Marker \in Seq(Seq(T))
  BY MarkerText
<1>2. Len(Marker) = 2 /\ Marker[1] = <<>> /\ Marker[2] = <<"SOURCES">>
  BY DEF Marker
<1>3. IsLine(<<>>) /\ <<>> # End
  BY DEF IsLine, NoBreak, Chomp, End
<1>4. IsLine(<<"SOURCES">>) /\ <<"SOURCES">> # End
  <2> DEFINE one == <<"SOURCES">>
  <2>1. Len(one) = 1 /\ one[1] = "SOURCES" /\ one # End
    BY DEF End
  <2> HIDE DEF one
  <2>2. NoBreak(one)
    BY <2>1 DEF NoBreak
  <2>3. Chomp(one) = one
    BY <2>1 DEF Chomp, Last
  <2> QED BY <2>1, <2>2, <2>3 DEF IsLine, one
<1>5. \A k \in 1 .. Len(Marker) : IsLine(Marker[k]) /\ Marker[k] # End
  <2>1. 1 .. 2 = {1, 2}
    OBVIOUS
  <2> QED BY <1>2, <1>3, <1>4, <2>1
<1>6. Each(NetOf(T, windows), Marker) = Marker
  BY <1>1, <1>5, NetLabels
<1> QED BY <1>1, <1>5, <1>6 DEF AreLines, IsLine

\* The heading and the labels below it.
LEMMA PillText ==
    ASSUME NEW T, "\n" \in T, NEW h \in Seq(T), NEW s \in Seq(Seq(T))
    PROVE  LET rest == FlattenSeq([i \in DOMAIN s |-> <<"\n">> \o s[i]]) IN
           Join(Cat(<<h>>, s)) = Cat(h, rest) /\ rest \in Seq(T)
<1> DEFINE S == Seq(T)
           n == Len(s)
           below == [i \in 1 .. n |-> <<"\n">> \o s[i]]
           all == Cat(<<h>>, s)
           glued == [i \in DOMAIN all |-> IF i = 1 THEN all[i] ELSE <<"\n">> \o all[i]]
           both == Cat(<<h>>, below)
<1>1. n \in Nat /\ DOMAIN s = 1 .. n /\ \A i \in 1 .. n : s[i] \in S
  OBVIOUS
<1>2. \A a \in S : <<"\n">> \o a \in S
  <2>1. <<"\n">> \in S
    OBVIOUS
  <2> QED BY <2>1
<1>3. s \in Seq(S) /\ h \in S
  OBVIOUS
<1> HIDE DEF n, S
<1>4. below \in Seq(S) /\ Len(below) = n
  <2>1. below = [i \in 1 .. n |-> below[i]] /\ \A i \in 1 .. n : below[i] \in S
    BY <1>1, <1>2
  <2> HIDE DEF below
  <2> QED BY <1>1, <2>1, ListOf
<1>5. \A i \in 1 .. n : below[i] = <<"\n">> \o s[i]
  OBVIOUS
<1>18. StartsWith(all, h, s, S)
  BY <1>3, CatStarts
<1>6. all \in Seq(S) /\ Len(all) = 1 + Len(s) /\ all[1] = h
  <2> HIDE DEF all
  <2> QED BY <1>18 DEF StartsWith
<1>7. \A i \in 1 .. Len(s) : all[1 + i] = s[i]
  <2> HIDE DEF all
  <2> QED BY <1>18 DEF StartsWith
<1> HIDE DEF below, all
<1>17. h \in S /\ below \in Seq(S)
  BY <1>3, <1>4
<1>8. both \in Seq(S) /\ Len(both) = 1 + Len(below) /\ both[1] = h /\ <<h>> \in Seq(S)
  <2>1. StartsWith(both, h, below, S)
    BY <1>17, CatStarts
  <2> HIDE DEF both
  <2> QED BY <2>1 DEF StartsWith
<1>9. \A i \in 1 .. Len(below) : both[1 + i] = below[i]
  <2>1. StartsWith(both, h, below, S)
    BY <1>17, CatStarts
  <2> HIDE DEF both
  <2> QED BY <2>1 DEF StartsWith
<1> HIDE DEF both
<1>10. DOMAIN all = 1 .. n + 1 /\ DOMAIN both = 1 .. n + 1 /\ Len(both) = n + 1
  <2>1. Len(all) = n + 1 /\ Len(both) = n + 1
    BY <1>1, <1>4, <1>6, <1>8 DEF n
  <2> QED BY <1>6, <1>8, <2>1
<1>11. \A i \in 1 .. n + 1 : (IF i = 1 THEN all[i] ELSE <<"\n">> \o all[i]) = both[i]
  <2> SUFFICES ASSUME NEW i \in 1 .. n + 1
               PROVE  (IF i = 1 THEN all[i] ELSE <<"\n">> \o all[i]) = both[i]
    OBVIOUS
  <2>1. CASE i = 1
    BY <1>6, <1>8, <2>1
  <2>2. CASE i # 1
    <3> DEFINE k == i - 1
    <3>1. k \in 1 .. n /\ 1 + k = i
      BY <1>1, <2>2
    <3> HIDE DEF k
    <3>2. all[i] = s[k]
      BY <1>7, <3>1 DEF n
    <3>3. both[i] = below[k]
      BY <1>4, <1>9, <3>1
    <3> QED BY <1>5, <2>2, <3>1, <3>2, <3>3
  <2> QED BY <2>1, <2>2
<1>12. glued = both
  <2>1. both = [i \in 1 .. n + 1 |-> both[i]]
    BY <1>8, <1>10
  <2> QED BY <1>10, <1>11, <2>1
<1>13. Join(all) = FlattenSeq(both)
  BY <1>12 DEF Join
<1>14. FlattenSeq(both) = Cat(FlattenSeq(<<h>>), FlattenSeq(below))
  BY <1>4, <1>8, FlattenConcat DEF S, both, Cat
<1>15. FlattenSeq(<<h>>) = h
  <2>1. Join(<<h>>) = h
    BY JoinOne
  <2> DEFINE one == <<h>>
  <2>2. [i \in DOMAIN one |-> IF i = 1 THEN one[i] ELSE <<"\n">> \o one[i]] = one
    OBVIOUS
  <2> QED BY <2>1, <2>2 DEF Join
<1>16. FlattenSeq(below) \in Seq(T)
  BY <1>4, FlattenType DEF S
<1> QED BY <1>1, <1>13, <1>14, <1>15, <1>16 DEF all, below

\* The text of an answer with sources.
LEMMA RenderedText ==
    ASSUME NEW T, "\n" \in T, "SOURCES" \in T, NEW advice, Strip(advice) \in Seq(T),
           NEW heading, Strip(heading) \in Seq(T), NEW s \in Seq(Seq(T)), s # <<>>
    PROVE  RenderAnswer(advice, heading, s)
             = Cat(Cat(Strip(advice), Separator), Join(Cat(<<Strip(heading)>>, s)))
<1> DEFINE p == Strip(advice)
           h == Strip(heading)
           rest == FlattenSeq([i \in DOMAIN s |-> <<"\n">> \o s[i]])
<1>1. RenderAnswer(advice, heading, s) = Cat(p, Cat(Cat(Separator, h), rest))
  BY DEF RenderAnswer, Separator, Cat
<1>2. p \in Seq(T) /\ h \in Seq(T) /\ Separator \in Seq(T)
  BY MarkerText
<1> HIDE DEF p, h
<1>3. rest \in Seq(T) /\ Join(Cat(<<h>>, s)) = Cat(h, rest)
  BY <1>2, PillText
<1> HIDE DEF rest
<1> DEFINE q == Cat(h, rest)
<1>4. Cat(Cat(Separator, h), rest) = Cat(Separator, q) /\ q \in Seq(T)
  BY <1>2, <1>3, CatRegroup
<1> HIDE DEF q
<1>5. Cat(p, Cat(Separator, q)) = Cat(Cat(p, Separator), q)
  BY <1>2, <1>4, CatRegroup
<1> QED BY <1>1, <1>3, <1>4, <1>5 DEF q, p, h

---------------------------------------------------------------------------
(***************************************************************************)
(* What is read of an answer                                               *)
(***************************************************************************)
\* What the player sees of an answer of Claude, once the plugin has read the file.
Arrives(file, said) ==
    LET response == ParseResponse(file)
        shown == SplitSources(response[4])
    IN /\ response # Nothing /\ response[3] = <<"ok">>
       /\ Visible(shown.text) = Visible(Strip(said.advice))
       /\ shown.sources = said.sources
       /\ said.sources # <<>> => Visible(shown.heading) = Visible(Strip(said.heading))

\* A response with a text.
LEMMA FieldsOfResponse ==
    ASSUME NEW a, NEW b, NEW c, NEW d
    PROVE  <<a, b, c, d>> # Nothing /\ <<a, b, c, d>>[3] = c /\ <<a, b, c, d>>[4] = d
BY DEF Nothing

\* An answer without sources arrives.
LEMMA AdviceArrives ==
    ASSUME NEW V, Alphabet({"ok"}) \subseteq V, "\r" \in V, "SOURCES" \notin V,
           NEW windows \in BOOLEAN, NEW said, said.advice \in Seq(V),
           Strip(said.advice) # <<>>, said.sources = <<>>
    PROVE  Arrives(WriteAnswer("7", "s", "ok",
                       RenderAnswer(said.advice, said.heading, said.sources), windows), said)
<1> DEFINE p == Strip(said.advice)
           net == NetOf(V, windows)
<1>1. p \in Seq(V) /\ Closed(p)
  BY StripClosed
<1>2. RenderAnswer(said.advice, said.heading, said.sources) = p
  BY <1>1 DEF RenderAnswer
<1>3. "\n" \in V /\ "[" \in V /\ "]" \in V /\ "END" \in V
  BY DEF Alphabet, Tokens
<1> HIDE DEF p
<1>4. PICK la : AreLines(la, V) /\ la # <<>> /\ Join(la) = p
  BY <1>1, <1>3, LinesExist
<1> DEFINE N == Each(net, la)
           file == WriteAnswer("7", "s", "ok", p, windows)
<1>5. ParseResponse(file) = <<<<"7">>, <<"s">>, <<"ok">>, Join(N)>>
  BY <1>1, <1>4, AnswerRead
<1>6. Join(N) \in Seq(V)
  BY <1>1, <1>3, <1>4, NetText
<1>7. Visible(Join(N)) = Visible(p)
  <2>1. la \in Seq(Seq(V))
    BY <1>4 DEF AreLines
  <2>2. Maps(net, Seq(V), Seq(V))
    BY <1>3, ReceivedType
  <2>3. \A a \in Seq(V) : Visible(net[a]) = Visible(a)
    BY <1>3, VisibleNet
  <2> HIDE DEF net
  <2>4. Visible(Join(N)) = Visible(Join(la))
    BY <1>3, <1>4, <2>1, <2>2, <2>3, VisibleJoin
  <2> QED BY <1>4, <2>4
<1> HIDE DEF N, file
<1>8. SplitSources(Join(N)) = [text |-> Join(N), heading |-> <<>>, sources |-> <<>>]
  BY <1>6, NoSources
<1>9. ParseResponse(file) # Nothing /\ ParseResponse(file)[3] = <<"ok">>
      /\ ParseResponse(file)[4] = Join(N)
  BY <1>5, FieldsOfResponse
<1> HIDE DEF N, file
<1>10. Arrives(file, said)
  BY <1>7, <1>8, <1>9 DEF Arrives, p
<1> QED BY <1>2, <1>10 DEF file

\* The text of an answer with sources neither starts nor ends with space.
LEMMA ReplyClosed ==
    ASSUME NEW T, "\n" \in T, "SOURCES" \in T, NEW p \in Seq(T), Closed(p), NEW h \in Seq(T),
           NEW s \in Seq(Seq(T)), s # <<>>, \A k \in 1 .. Len(s) : Closed(s[k])
    PROVE  LET reply == Cat(Cat(p, Separator), Join(Cat(<<h>>, s))) IN
           reply \in Seq(T) /\ Closed(reply)
<1> DEFINE S == Seq(T)
<1>1. PICK r \in Seq(S), l \in S : s = Append(r, l)
  BY SequenceEmptyOrAppend
<1>2. Closed(l)
  <2> DEFINE n == Len(r)
  <2>1. n + 1 \in 1 .. Len(s) /\ s[n + 1] = l
    BY <1>1
  <2> QED BY <2>1
<1>3. h \in S /\ r \in Seq(S) /\ Separator \in Seq(T) /\ Break \in Seq(T)
  BY MarkerText
<1> DEFINE one == <<h>>
           x == Cat(one, r)
<1>4. one \in Seq(S) /\ x \in Seq(S) /\ x # <<>>
  <2> HIDE DEF S
  <2>1. one \in Seq(S) /\ x \in Seq(S) /\ Len(x) = 1 + Len(r) /\ Len(r) \in Nat
    BY <1>3, CatFirst
  <2> HIDE DEF x
  <2>2. x # <<>>
    BY <2>1
  <2> QED BY <2>1, <2>2
<1>5. Cat(one, s) = Append(x, l)
  <2> HIDE DEF S, one
  <2> QED BY <1>1, <1>4, CatAppend DEF x
<1> DEFINE y == Join(x)
           m == Cat(y, Break)
           sm == Cat(Separator, m)
<1>6. y \in Seq(T) /\ Join(Append(x, l)) = Cat(m, l)
  BY <1>4, JoinAppend
<1> HIDE DEF x, y
<1>7. m \in Seq(T)
  BY <1>3, <1>6, CatRegroup
<1> HIDE DEF m
<1>8. sm \in Seq(T) /\ Cat(Cat(p, Separator), m) = Cat(p, sm)
  BY <1>3, <1>7, CatRegroup
<1>9. Cat(p, Separator) \in Seq(T)
  BY <1>3, CatRegroup
<1>10. Cat(Cat(p, Separator), Cat(m, l)) = Cat(Cat(Cat(p, Separator), m), l)
  BY <1>7, <1>9, CatRegroup
<1> HIDE DEF sm
<1>11. Cat(Cat(p, sm), l) \in Seq(T) /\ Closed(Cat(Cat(p, sm), l))
  BY <1>2, <1>8, ClosedAround
<1> QED BY <1>5, <1>6, <1>8, <1>10, <1>11 DEF one

\* A line of few kinds of tokens becomes the same line wherever there are more kinds.
LEMMA NetWider ==
    ASSUME NEW V, NEW T, V \subseteq T, NEW windows \in BOOLEAN, NEW lines, AreLines(lines, V)
    PROVE  AreLines(lines, T) /\ Each(NetOf(T, windows), lines) = Each(NetOf(V, windows), lines)
<1>1. Seq(V) \subseteq Seq(T)
  BY WiderSeq
<1>2. lines \in Seq(Seq(V)) /\ \A k \in DOMAIN lines : lines[k] \in Seq(V)
  BY DEF AreLines
<1>3. Seq(Seq(V)) \subseteq Seq(Seq(T))
  <2> DEFINE A == Seq(V)
             B == Seq(T)
  <2>1. A \subseteq B
    BY <1>1
  <2> HIDE DEF A, B
  <2>2. Seq(A) \subseteq Seq(B)
    BY <2>1, WiderSeq
  <2> QED BY <2>2 DEF A, B
<1>4. AreLines(lines, T)
  BY <1>2, <1>3 DEF AreLines
<1>5. \A k \in DOMAIN lines : NetOf(T, windows)[lines[k]] = NetOf(V, windows)[lines[k]]
  BY <1>1, <1>2 DEF NetOf
<1> QED BY <1>4, <1>5 DEF Each

\* The line of a heading as it arrives.
LEMMA NetHeading ==
    ASSUME NEW V, "[" \in V, "]" \in V, "END" \in V, NEW h \in Seq(V), IsLine(h), Closed(h),
           NEW windows \in BOOLEAN
    PROVE  LET g == Guarded(h) IN
           NetOf(V, windows)[h] = g /\ g # <<>> /\ g \in Seq(V) /\ IsLine(g)
<1> DEFINE g == Guarded(h)
           safe == SafeOf(V)
<1>1. NetOf(V, windows)[h] = g /\ g # <<>>
  BY LastNet DEF Closed
<1>2. safe[h] = g
  BY DEF SafeOf, IsLine
<1>3. g \in Seq(V) /\ NoBreak(g)
  <2>1. Maps(safe, Seq(V), Seq(V)) /\ (NoBreak(h) => NoBreak(safe[h]))
    BY SafeType
  <2> HIDE DEF safe, g
  <2> QED BY <1>2, <2>1 DEF Maps, IsLine
<1>4. Chomp(g) = g
  <2>1. CASE h = End
    <3> DEFINE end == <<"[", "END", "]">>
    <3>1. Last(end) = "]"
      BY DEF Last
    <3>2. g = end
      BY <2>1 DEF Guarded
    <3> HIDE DEF end, g
    <3> QED BY <3>1, <3>2 DEF Chomp
  <2>2. CASE h # End
    BY <2>2 DEF Guarded, IsLine
  <2> QED BY <2>1, <2>2
<1> QED BY <1>1, <1>3, <1>4 DEF IsLine

\* The labels of the sources.
LEMMA LabelFacts ==
    ASSUME NEW V, NEW s \in Seq(Seq(V \ {"\n", "\r"})),
           \A k \in 1 .. Len(s) : s[k] # <<>> /\ s[k] # End /\ Strip(s[k]) = s[k]
    PROVE  /\ s \in Seq(Seq(V))
           /\ \A k \in 1 .. Len(s) : IsLine(s[k]) /\ s[k] # <<>> /\ s[k] # End
           /\ \A k \in 1 .. Len(s) : Closed(s[k])
<1> DEFINE W == V \ {"\n", "\r"}
           n == Len(s)
<1>1. n \in Nat /\ s = [k \in 1 .. n |-> s[k]] /\ \A k \in 1 .. n : s[k] \in Seq(W)
  OBVIOUS
<1>2. \A k \in 1 .. n : s[k] # <<>> /\ s[k] # End /\ Strip(s[k]) = s[k]
  OBVIOUS
<1> HIDE DEF n
<1>3. \A k \in 1 .. n : s[k] \in Seq(V) /\ IsLine(s[k])
  BY <1>1, PlainLine
<1>4. s \in Seq(Seq(V))
  <2> DEFINE S == Seq(V)
  <2>1. \A k \in 1 .. n : s[k] \in S
    BY <1>3
  <2> HIDE DEF S
  <2>2. s \in Seq(S)
    BY <1>1, <2>1, ListOf
  <2> QED BY <2>2 DEF S
<1>5. ASSUME NEW k \in 1 .. n PROVE Closed(s[k])
  <2> DEFINE a == s[k]
  <2>1. a \in Seq(V) /\ Strip(a) # <<>> /\ Strip(a) = a
    BY <1>2, <1>3
  <2> HIDE DEF a
  <2>2. Closed(Strip(a))
    BY <2>1, StripClosed
  <2> QED BY <2>1, <2>2 DEF a
<1> QED BY <1>2, <1>3, <1>4, <1>5 DEF n

\* The lines of an answer with sources as they arrive.
LEMMA NetPills ==
    ASSUME NEW V, "\n" \in V, "[" \in V, "]" \in V, "END" \in V, NEW windows \in BOOLEAN,
           NEW la, AreLines(la, V), NEW h \in Seq(V), IsLine(h), Closed(h),
           NEW s \in Seq(Seq(V)), \A k \in 1 .. Len(s) : IsLine(s[k]) /\ s[k] # End
    PROVE  LET T == V \cup {"SOURCES"}
               lines == Cat(Cat(la, Marker), Cat(<<h>>, s))
           IN /\ AreLines(lines, T)
              /\ Each(NetOf(T, windows), lines)
                   = Cat(Cat(Each(NetOf(V, windows), la), Marker), Cat(<<Guarded(h)>>, s))
<1> DEFINE T == V \cup {"SOURCES"}
           S == Seq(T)
           net == NetOf(T, windows)
           one == <<h>>
           u == Cat(la, Marker)
           v == Cat(one, s)
           lines == Cat(u, v)
<1>1. V \subseteq T /\ "\n" \in T /\ "SOURCES" \in T /\ "[" \in T /\ "]" \in T /\ "END" \in T
  OBVIOUS
<1> HIDE DEF T
<1>2. AreLines(la, T) /\ Each(net, la) = Each(NetOf(V, windows), la)
  BY <1>1, NetWider
<1>3. AreLines(Marker, T) /\ Each(net, Marker) = Marker
  BY <1>1, NetMarker
<1>4. h \in S
  BY <1>1, WiderSeq
<1>5. AreLines(s, T) /\ Each(net, s) = s
  <2>1. AreLines(s, V)
    BY DEF AreLines, IsLine
  <2>2. AreLines(s, T)
    BY <1>1, <2>1, NetWider
  <2>3. s \in Seq(Seq(T))
    BY <2>2 DEF AreLines
  <2>4. Each(net, s) = s
    BY <2>3, NetLabels
  <2> QED BY <2>2, <2>4
<1>6. AreLines(one, T)
  <2>1. Len(one) = 1 /\ one[1] = h /\ one \in Seq(S)
    BY <1>4
  <2> HIDE DEF one
  <2>2. \A k \in 1 .. Len(one) : NoBreak(one[k])
    BY <2>1 DEF IsLine
  <2> QED BY <2>1, <2>2 DEF AreLines
<1>7. Maps(net, S, S)
  BY <1>1, ReceivedType
<1>8. net[h] = Guarded(h)
  BY <1>4, LastNet DEF Closed
<1> HIDE DEF S, net
<1>9. Each(net, one) = <<Guarded(h)>>
  BY <1>4, <1>7, <1>8, EachOne
<1>10. la \in Seq(S) /\ Marker \in Seq(S) /\ one \in Seq(S) /\ s \in Seq(S)
  BY <1>2, <1>3, <1>5, <1>6 DEF AreLines, S
<1> HIDE DEF one
<1>11. AreLines(u, T) /\ AreLines(v, T)
  BY <1>2, <1>3, <1>5, <1>6, LinesConcat
<1>12. Each(net, u) = Cat(Each(net, la), Marker)
  BY <1>3, <1>7, <1>10, EachConcat
<1>13. Each(net, v) = Cat(<<Guarded(h)>>, s)
  BY <1>5, <1>7, <1>9, <1>10, EachConcat
<1>14. u \in Seq(S) /\ v \in Seq(S)
  BY <1>11 DEF AreLines, S
<1> HIDE DEF u, v
<1>15. Each(net, lines) = Cat(Each(net, u), Each(net, v))
  BY <1>7, <1>14, EachConcat
<1>16. AreLines(lines, T)
  BY <1>11, LinesConcat
<1> QED BY <1>2, <1>12, <1>13, <1>15, <1>16 DEF u, v, T, net, one

\* An answer of Claude that the daemon accepts, made of tokens of V.
IsSaid(said, V) ==
    /\ said.advice \in Seq(V) /\ Strip(said.advice) # <<>>
    /\ said.heading \in Seq(V \ {"\n", "\r"}) /\ Strip(said.heading) # <<>>
    /\ said.sources \in Seq(Seq(V \ {"\n", "\r"})) /\ Len(said.sources) <= MaxSources
    /\ \A k \in 1 .. Len(said.sources) :
        LET label == said.sources[k] IN label # <<>> /\ label # End /\ Strip(label) = label

\* The text of an answer with sources, as the plugin reads it.
LEMMA PillsRead ==
    ASSUME NEW V, Alphabet({"ok"}) \subseteq V, "\r" \in V,
           NEW windows \in BOOLEAN, NEW said, IsSaid(said, V), said.sources # <<>>,
           NEW la, AreLines(la, V), la # <<>>, Join(la) = Strip(said.advice)
    PROVE  LET h == Strip(said.heading)
               P == Join(Each(NetOf(V, windows), la))
               text == Cat(Cat(P, Separator), Join(Cat(<<Guarded(h)>>, said.sources)))
           IN /\ h \in Seq(V) /\ IsLine(h) /\ Closed(h) /\ P \in Seq(V)
              /\ ParseResponse(WriteAnswer("7", "s", "ok",
                     RenderAnswer(said.advice, said.heading, said.sources), windows))
                   = <<<<"7">>, <<"s">>, <<"ok">>, text>>
<1> DEFINE T == V \cup {"SOURCES"}
           W == V \ {"\n", "\r"}
           p == Strip(said.advice)
           h == Strip(said.heading)
           s == said.sources
           N == Each(NetOf(V, windows), la)
           P == Join(N)
           g == Guarded(h)
           heads == <<h>>
           below == Cat(heads, s)
           shown == Cat(<<g>>, s)
           lines == Cat(Cat(la, Marker), below)
<1>1. "\n" \in V /\ "[" \in V /\ "]" \in V /\ "END" \in V
  <2>1. {"\n", "[", "]", "END"} \subseteq Tokens
    BY DEF Tokens
  <2>2. Tokens \subseteq V
    BY DEF Alphabet
  <2> QED BY <2>1, <2>2
<1>2. V \subseteq T /\ "\n" \in T /\ "SOURCES" \in T /\ "\r" \in T /\ Alphabet({"ok"}) \subseteq T
  BY <1>1
<1>3. p \in Seq(V) /\ Closed(p)
  BY StripClosed DEF IsSaid
<1>4. h \in Seq(V) /\ IsLine(h) /\ Closed(h)
  <2>1. said.heading \in Seq(W) /\ h # <<>>
    BY DEF IsSaid
  <2> HIDE DEF W
  <2>2. h \in Seq(W) /\ Closed(h)
    BY <2>1, StripClosed
  <2> HIDE DEF h
  <2> QED BY <2>2, PlainLine DEF W
<1>5. /\ s \in Seq(Seq(V))
      /\ \A k \in 1 .. Len(s) : IsLine(s[k]) /\ s[k] # <<>> /\ s[k] # End
      /\ \A k \in 1 .. Len(s) : Closed(s[k])
  <2>1. s \in Seq(Seq(V \ {"\n", "\r"}))
    BY DEF IsSaid
  <2>2. \A k \in 1 .. Len(s) : s[k] # <<>> /\ s[k] # End /\ Strip(s[k]) = s[k]
    BY DEF IsSaid
  <2> HIDE DEF s
  <2> QED BY <2>1, <2>2, LabelFacts
<1>6. g # <<>> /\ g \in Seq(V)
  BY <1>1, <1>4, NetHeading
<1>7. Join(la) = p /\ s # <<>>
  OBVIOUS
<1> HIDE DEF p, h, s, W
<1>8. AreLines(lines, T) /\ Each(NetOf(T, windows), lines) = Cat(Cat(N, Marker), shown)
  <2>1. AreLines(la, V) /\ windows \in BOOLEAN
    OBVIOUS
  <2>2. s \in Seq(Seq(V)) /\ \A k \in 1 .. Len(s) : IsLine(s[k]) /\ s[k] # End
    BY <1>5
  <2>3. AreLines(lines, T)
    BY <1>1, <1>4, <2>1, <2>2, NetPills
  <2>4. Each(NetOf(T, windows), lines) = Cat(Cat(N, Marker), shown)
    BY <1>1, <1>4, <2>1, <2>2, NetPills
  <2> QED BY <2>3, <2>4
<1>9. N \in Seq(Seq(V)) /\ N # <<>> /\ P \in Seq(V)
  BY <1>1, <1>3, <1>7, NetText
<1>10. Seq(V) \subseteq Seq(T)
  BY <1>2, WiderSeq
<1>11. Seq(Seq(V)) \subseteq Seq(Seq(T))
  <2> DEFINE A == Seq(V)
             B == Seq(T)
  <2>1. A \subseteq B
    BY <1>10
  <2> HIDE DEF A, B
  <2>2. Seq(A) \subseteq Seq(B)
    BY <2>1, WiderSeq
  <2> QED BY <2>2 DEF A, B
<1>12. p \in Seq(T) /\ h \in Seq(T) /\ s \in Seq(Seq(T)) /\ g \in Seq(T) /\ P \in Seq(T)
       /\ N \in Seq(Seq(T)) /\ la \in Seq(Seq(T))
  BY <1>3, <1>4, <1>5, <1>6, <1>9, <1>10, <1>11 DEF AreLines
<1> HIDE DEF N, P, g, T
<1>13. /\ below \in Seq(Seq(T)) /\ below # <<>> /\ shown \in Seq(Seq(T)) /\ shown # <<>>
  <2> DEFINE S == Seq(T)
             n == Len(s)
  <2>1. h \in S /\ g \in S /\ s \in Seq(S)
    BY <1>12
  <2> HIDE DEF S, n, heads
  <2>2. below \in Seq(S) /\ Len(below) = 1 + n /\ n \in Nat
    BY <2>1, CatFirst DEF n, heads
  <2>3. shown \in Seq(S) /\ Len(shown) = 1 + n
    BY <2>1, CatFirst DEF n
  <2> HIDE DEF below, shown
  <2> QED BY <2>2, <2>3 DEF S
<1> HIDE DEF below, shown
<1>14. Join(lines) = Cat(Cat(p, Separator), Join(below))
  BY <1>2, <1>7, <1>12, <1>13, MarkedText
<1>15. Join(Cat(Cat(N, Marker), shown)) = Cat(Cat(P, Separator), Join(shown))
  BY <1>2, <1>9, <1>12, <1>13, MarkedText DEF P
<1> DEFINE reply == Cat(Cat(p, Separator), Join(below))
<1>16. reply \in Seq(T) /\ Closed(reply)
  BY <1>2, <1>3, <1>5, <1>7, <1>12, ReplyClosed DEF below
<1>17. RenderAnswer(said.advice, said.heading, s) = reply
  BY <1>2, <1>7, <1>12, RenderedText DEF below, p, h
<1> HIDE DEF reply, lines
<1>18. lines # <<>>
  <2> DEFINE u == Cat(la, Marker)
             S == Seq(T)
  <2>1. la \in Seq(S) /\ Marker \in Seq(S) /\ below \in Seq(S)
    BY <1>2, <1>12, <1>13, MarkerText
  <2> HIDE DEF S
  <2>2. u \in Seq(S)
    BY <2>1, CatParts
  <2> HIDE DEF u
  <2>3. Len(Cat(u, below)) = Len(u) + Len(below) /\ Len(u) \in Nat /\ Len(below) \in Nat
    BY <2>1, <2>2, CatParts
  <2>4. Len(below) # 0
    BY <1>13, <2>1
  <2>5. Len(lines) # 0
    BY <2>3, <2>4 DEF lines, u
  <2> QED BY <2>5
<1>19. Join(lines) = reply
  BY <1>14 DEF reply
<1>20. ParseResponse(WriteAnswer("7", "s", "ok", Join(lines), windows))
         = <<<<"7">>, <<"s">>, <<"ok">>, Join(Each(NetOf(T, windows), lines))>>
  <2>1. "ok" \in {"ok", "error"}
    OBVIOUS
  <2> QED BY <1>2, <1>8, <1>16, <1>18, <1>19, <2>1, AnswerRead
<1> QED BY <1>4, <1>8, <1>9, <1>15, <1>17, <1>19, <1>20 DEF s, h, g, P, N, shown

\* An answer with sources arrives.
LEMMA PillsArrive ==
    ASSUME NEW V, Alphabet({"ok"}) \subseteq V, "\r" \in V, "SOURCES" \notin V,
           NEW windows \in BOOLEAN, NEW said, IsSaid(said, V), said.sources # <<>>,
           MaxSources \in Nat
    PROVE  Arrives(WriteAnswer("7", "s", "ok",
                       RenderAnswer(said.advice, said.heading, said.sources), windows), said)
<1> DEFINE p == Strip(said.advice)
           h == Strip(said.heading)
           s == said.sources
           g == Guarded(h)
<1>1. "\n" \in V /\ "[" \in V /\ "]" \in V /\ "END" \in V
  BY DEF Alphabet, Tokens
<1>2. p \in Seq(V)
  BY StripClosed DEF IsSaid
<1> HIDE DEF p
<1>3. PICK la : AreLines(la, V) /\ la # <<>> /\ Join(la) = p
  BY <1>1, <1>2, LinesExist
<1> DEFINE net == NetOf(V, windows)
           P == Join(Each(net, la))
           text == Cat(Cat(P, Separator), Join(Cat(<<g>>, s)))
           file == WriteAnswer("7", "s", "ok",
                       RenderAnswer(said.advice, said.heading, said.sources), windows)
<1>4. /\ h \in Seq(V) /\ IsLine(h) /\ Closed(h) /\ P \in Seq(V)
      /\ ParseResponse(file) = <<<<"7">>, <<"s">>, <<"ok">>, text>>
  BY <1>3, PillsRead DEF p
<1>5. /\ s \in Seq(Seq(V)) /\ s # <<>> /\ Len(s) <= MaxSources
      /\ \A k \in 1 .. Len(s) : IsLine(s[k]) /\ s[k] # <<>>
  <2>1. s \in Seq(Seq(V \ {"\n", "\r"}))
    BY DEF IsSaid
  <2>2. \A k \in 1 .. Len(s) : s[k] # <<>> /\ s[k] # End /\ Strip(s[k]) = s[k]
    BY DEF IsSaid
  <2>3. s # <<>> /\ Len(s) <= MaxSources
    BY DEF IsSaid
  <2> HIDE DEF s
  <2> QED BY <2>1, <2>2, <2>3, LabelFacts
<1> HIDE DEF h, s, file
<1>6. g # <<>> /\ g \in Seq(V) /\ IsLine(g)
  BY <1>1, <1>4, NetHeading
<1> HIDE DEF g
<1>7. Visible(P) = Visible(p)
  <2>1. la \in Seq(Seq(V))
    BY <1>3 DEF AreLines
  <2>2. Maps(net, Seq(V), Seq(V))
    BY <1>1, ReceivedType
  <2>3. \A a \in Seq(V) : Visible(net[a]) = Visible(a)
    BY <1>1, VisibleNet
  <2> HIDE DEF net
  <2>4. Visible(P) = Visible(Join(la))
    BY <1>1, <1>3, <2>1, <2>2, <2>3, VisibleJoin
  <2> QED BY <1>3, <2>4
<1> HIDE DEF P
<1>8. SplitSources(text) = [text |-> P, heading |-> g, sources |-> s]
  BY <1>1, <1>4, <1>5, <1>6, PillsShown
<1>9. Visible(g) = Visible(h)
  BY VisibleGuarded DEF g
<1> HIDE DEF text
<1>10. ParseResponse(file) # Nothing /\ ParseResponse(file)[3] = <<"ok">>
       /\ ParseResponse(file)[4] = text
  BY <1>4, FieldsOfResponse
<1>11. Arrives(file, said)
  BY <1>7, <1>8, <1>9, <1>10 DEF Arrives, p, h, s
<1> QED BY <1>11 DEF file

\* Whatever Claude says arrives.
LEMMA SaidArrives ==
    ASSUME NEW V, Alphabet({"ok"}) \subseteq V, "\r" \in V, "SOURCES" \notin V,
           NEW windows \in BOOLEAN, NEW said, IsSaid(said, V), MaxSources \in Nat
    PROVE  Arrives(WriteAnswer("7", "s", "ok",
                       RenderAnswer(said.advice, said.heading, said.sources), windows), said)
<1>1. CASE said.sources = <<>>
  BY <1>1, AdviceArrives DEF IsSaid
<1>2. CASE said.sources # <<>>
  BY <1>2, PillsArrive
<1> QED BY <1>1, <1>2

---------------------------------------------------------------------------
(***************************************************************************)
(* The answer on its way                                                   *)
(***************************************************************************)
\* An answer of Claude is made of tokens that do not mark the sources.
LEMMA SaidTokens ==
    ASSUME NEW said, said \in UNION {Answers[p] : p \in Platforms}
    PROVE  \E V : /\ Alphabet({"ok"}) \subseteq V /\ "\r" \in V /\ "SOURCES" \notin V
                  /\ IsSaid(said, V)
<1> DEFINE Own == Alphabet({"ok"}) \cup {"\r"}
           A == ToSet(said.advice)
           H == ToSet(said.heading)
           L == UNION {ToSet(l) : l \in ToSet(said.sources)}
           V == Own \cup A \cup H \cup L
           W == V \ {"\n", "\r"}
           s == said.sources
           n == Len(s)
<1>1. /\ said.advice \in Seq(A) /\ Strip(said.advice) # <<>> /\ "SOURCES" \notin A
      /\ said.heading \in Seq(H) /\ Strip(said.heading) # <<>>
      /\ H \cap {"\n", "\r", "SOURCES"} = {}
      /\ s \in Seq(ToSet(s)) /\ Len(s) <= MaxSources
      /\ \A l \in ToSet(s) : /\ l \in Seq(ToSet(l)) /\ Strip(l) # <<>> /\ Strip(l) = l
                             /\ l # <<"END">> /\ ToSet(l) \cap {"\n", "\r", "SOURCES"} = {}
  BY AnswersAssumption DEF IsTitle, IsArray
<1>2. Alphabet({"ok"}) \subseteq Own /\ "\r" \in Own /\ "SOURCES" \notin Own
  BY DEF Alphabet, Tokens
<1> HIDE DEF Own
<1>3. "SOURCES" \notin L
  BY <1>1
<1> HIDE DEF A, H
<1>4. A \subseteq V /\ H \subseteq W
  BY <1>1
<1>5. \A l \in ToSet(s) : ToSet(l) \subseteq W
  BY <1>1
<1>6. Alphabet({"ok"}) \subseteq V /\ "\r" \in V /\ "SOURCES" \notin V
  BY <1>1, <1>2, <1>3
<1> HIDE DEF L, V, W
<1>7. said.advice \in Seq(V) /\ said.heading \in Seq(W)
  BY <1>1, <1>4, WiderSeq
<1>8. \A l \in ToSet(s) : l \in Seq(W)
  BY <1>1, <1>5, WiderSeq
<1> HIDE DEF s
<1>9. n \in Nat /\ s = [k \in 1 .. n |-> s[k]] /\ \A k \in 1 .. n : s[k] \in ToSet(s)
  <2>1. \A k \in DOMAIN s : s[k] \in ToSet(s)
    BY DEF ToSet
  <2> QED BY <1>1, <2>1
<1>10. s \in Seq(Seq(W))
  <2> DEFINE S == Seq(W)
  <2>1. \A k \in 1 .. n : s[k] \in S
    BY <1>8, <1>9
  <2> HIDE DEF S, n
  <2>2. s \in Seq(S)
    BY <1>9, <2>1, ListOf
  <2> QED BY <2>2 DEF S
<1>11. \A k \in 1 .. n : s[k] # <<>> /\ s[k] # End /\ Strip(s[k]) = s[k]
  BY <1>1, <1>9 DEF End
<1>12. IsSaid(said, V)
  BY <1>1, <1>7, <1>10, <1>11 DEF IsSaid, s, W
<1> QED BY <1>6, <1>12

\* An answer of Claude arrives, an answer that there is none is read.
LEMMA AnswerShown ==
    ASSUME NEW said, said \in UNION {Answers[p] : p \in Platforms}, NEW windows \in BOOLEAN
    PROVE  Arrives(WriteAnswer("7", "s", "ok",
                       RenderAnswer(said.advice, said.heading, said.sources), windows), said)
<1>1. PICK V : /\ Alphabet({"ok"}) \subseteq V /\ "\r" \in V /\ "SOURCES" \notin V
               /\ IsSaid(said, V)
  BY SaidTokens
<1> QED BY <1>1, PromptAssumption, SaidArrives

\* The plugin understands that Claude has failed.
LEMMA FailureShown ==
    ASSUME NEW windows \in BOOLEAN
    PROVE  ParseResponse(WriteAnswer("7", "s", "error", <<"failed">>, windows)) # Nothing
<1> DEFINE T == Alphabet({"error"}) \cup {"\r", "failed"}
           text == <<"failed">>
           lines == <<text>>
           file == WriteAnswer("7", "s", "error", text, windows)
           got == Join(Each(NetOf(T, windows), lines))
<1>1. Alphabet({"error"}) \subseteq T /\ "\r" \in T /\ "\n" \in T /\ "failed" \in T
  BY DEF Alphabet, Tokens
<1> HIDE DEF T
<1>2. text \in Seq(T) /\ Len(text) = 1 /\ text[1] = "failed"
  BY <1>1
<1> HIDE DEF text
<1>3. Closed(text) /\ NoBreak(text)
  BY <1>2 DEF Closed, NoBreak, PythonSpace, Space
<1>4. lines \in Seq(Seq(T)) /\ lines # <<>> /\ Len(lines) = 1 /\ lines[1] = text
  BY <1>2
<1>5. Join(lines) = text
  BY <1>1, <1>2, JoinOne
<1> HIDE DEF lines
<1>6. AreLines(lines, T)
  BY <1>3, <1>4 DEF AreLines
<1>7. "error" \in {"ok", "error"}
  OBVIOUS
<1>8. ParseResponse(WriteAnswer("7", "s", "error", Join(lines), windows))
        = <<<<"7">>, <<"s">>, <<"error">>, got>>
  BY <1>1, <1>2, <1>3, <1>4, <1>5, <1>6, <1>7, AnswerRead
<1> HIDE DEF got
<1> QED BY <1>5, <1>8, FieldsOfResponse DEF text

\* What the daemon has to say, what it writes and what is shown of it.
ReplyIsOf(r) ==
    r.state \in {"answered", "published", "shown"} =>
        \/ r.said = Null /\ r.status = <<"error">> /\ r.reply = <<"failed">>
        \/ /\ r.said \in Answers[platform] /\ r.status = <<"ok">>
           /\ r.reply = RenderAnswer(r.said.advice, r.said.heading, r.said.sources)
AnswerIsOf(r) ==
    r.state = "published" =>
        answer = WriteAnswer("7", "s", r.status[1], r.reply, platform = "windows")
AnswerInv == QuestionInv /\ ReplyIsOf(request) /\ AnswerIsOf(request) /\ AnswerArrives

\* There is no answer yet.
LEMMA AnswerInit == Init => AnswerInv
<1> SUFFICES ASSUME Init PROVE ReplyIsOf(request) /\ AnswerIsOf(request) /\ AnswerArrives
  BY QuestionInit DEF AnswerInv
<1>1. request.state = "none"
  BY DEF Init, NoRequest
<1> QED BY <1>1 DEF ReplyIsOf, AnswerIsOf, AnswerArrives

\* A request keeps its answer.
LEMMA ReplyAdvances ==
    ASSUME IsRequest(request), NEW s, Advance(s)
    PROVE  request'.state = s /\ request'.said = request.said
           /\ request'.status = request.status /\ request'.reply = request.reply
BY DEF IsRequest, NoRequest, Advance

\* The answer of a request.
LEMMA ReplyPending ==
    ASSUME IsRequest(request), NEW status, NEW said, NEW reply, Pending(status, said, reply)
    PROVE  request'.state = "answered" /\ request'.said = said
           /\ request'.status = status /\ request'.reply = reply
BY DEF IsRequest, NoRequest, Pending

\* What the plugin shows is what was said.
LEMMA MessageShown ==
    ASSUME AnswerInv, Show, platform' = platform PROVE ReplyIsOf(request)' /\ AnswerArrives'
<1> DEFINE response == ParseResponse(answer)
           windows == platform = "windows"
           large == Len(answer) > MaxResponseBytes
           said == request.said
<1>1. /\ request.state = "published" /\ IsRequest(request) /\ platform \in Platforms
      /\ answer = WriteAnswer("7", "s", request.status[1], request.reply, windows)
      /\ \/ said = Null /\ request.status = <<"error">> /\ request.reply = <<"failed">>
         \/ /\ said \in Answers[platform] /\ request.status = <<"ok">>
            /\ request.reply = RenderAnswer(said.advice, said.heading, said.sources)
  BY DEF Show, AnswerInv, QuestionInv, SentInv, PublishedInv, ReplyIsOf, AnswerIsOf
<1>2. windows \in BOOLEAN
  OBVIOUS
<1>3. ReadResponse(answer) = IF large THEN Nothing ELSE response
  BY DEF ReadResponse
<1>4. response # Nothing /\ ~large =>
        /\ Advance("shown")
        /\ message' = IF response[3] = <<"ok">> THEN SplitSources(response[4])
                      ELSE [NoMessage EXCEPT !.text = response[4]]
  BY <1>3 DEF Show
<1>7. CASE large
  <2>1. Advance("lost") /\ answer' = answer
    BY <1>3, <1>7 DEF Show
  <2>2. request'.state = "lost" /\ Len(answer') > MaxResponseBytes
    BY <1>1, <1>7, <2>1, ReplyAdvances
  <2> QED BY <2>2 DEF ReplyIsOf, AnswerArrives
<1>8. SUFFICES ASSUME ~large PROVE ReplyIsOf(request)' /\ AnswerArrives'
  BY <1>7
<1> HIDE DEF windows, said, large
<1>5. CASE said = Null /\ request.status = <<"error">> /\ request.reply = <<"failed">>
  <2>1. answer = WriteAnswer("7", "s", "error", <<"failed">>, windows)
    BY <1>1, <1>5
  <2>2. response # Nothing
    BY <1>2, <2>1, FailureShown
  <2> HIDE DEF response
  <2>3. /\ request'.state = "shown" /\ request'.said = Null
        /\ request'.status = <<"error">> /\ request'.reply = <<"failed">>
    BY <1>1, <1>4, <1>5, <1>8, <2>2, ReplyAdvances DEF said
  <2> QED BY <2>3 DEF ReplyIsOf, AnswerArrives
<1>6. CASE /\ said \in Answers[platform] /\ request.status = <<"ok">>
           /\ request.reply = RenderAnswer(said.advice, said.heading, said.sources)
  <2>1. answer = WriteAnswer("7", "s", "ok",
                     RenderAnswer(said.advice, said.heading, said.sources), windows)
    BY <1>1, <1>6
  <2>2. Arrives(answer, said)
    <3>1. said \in UNION {Answers[p] : p \in Platforms}
      BY <1>1, <1>6
    <3> QED BY <1>2, <2>1, <3>1, AnswerShown
  <2>3. /\ response # Nothing /\ response[3] = <<"ok">>
        /\ Visible(SplitSources(response[4]).text) = Visible(Strip(said.advice))
        /\ SplitSources(response[4]).sources = said.sources
        /\ said.sources # <<>> =>
            Visible(SplitSources(response[4]).heading) = Visible(Strip(said.heading))
    BY <2>2 DEF Arrives
  <2> HIDE DEF response
  <2>4. /\ request'.state = "shown" /\ request'.said = said
        /\ request'.status = <<"ok">> /\ request'.reply = request.reply
        /\ message' = SplitSources(response[4])
    BY <1>1, <1>4, <1>6, <1>8, <2>3, ReplyAdvances DEF said
  <2>5. AnswerArrives'
    BY <2>3, <2>4 DEF AnswerArrives
  <2>6. ReplyIsOf(request)'
    BY <1>6, <2>4 DEF ReplyIsOf
  <2> QED BY <2>5, <2>6
<1> QED BY <1>1, <1>5, <1>6

\* Every step of the exchange keeps all of that.
LEMMA AnswerStays == AnswerInv /\ [Next]_vars => AnswerInv'
<1> SUFFICES ASSUME AnswerInv, [Next]_vars
             PROVE  ReplyIsOf(request)' /\ AnswerIsOf(request)' /\ AnswerArrives'
  BY QuestionStays DEF AnswerInv
<1>1. platform' = platform /\ IsRequest(request)
  BY PlatformStays DEF AnswerInv, QuestionInv, SentInv
<1>2. ReplyIsOf(request) /\ AnswerIsOf(request) /\ AnswerArrives
  BY DEF AnswerInv
<1>3. CASE Show
  <2>1. request'.state \in {"lost", "shown"}
    <3>1. Advance("lost") \/ Advance("shown")
      BY <1>3 DEF Show
    <3> QED BY <1>1, <3>1, ReplyAdvances
  <2> QED BY <1>1, <1>3, <2>1, MessageShown DEF AnswerIsOf
<1>4. CASE Publish
  <2>1. /\ request.state = "answered" /\ Advance("published")
        /\ answer' = WriteAnswer("7", "s", request.status[1], request.reply,
                                 platform = "windows")
    BY <1>4 DEF Publish
  <2>2. /\ request'.state = "published" /\ request'.said = request.said
        /\ request'.status = request.status /\ request'.reply = request.reply
    BY <1>1, <2>1, ReplyAdvances
  <2> QED BY <1>1, <1>2, <2>1, <2>2 DEF ReplyIsOf, AnswerIsOf, AnswerArrives
<1>5. CASE ClaudeAnswers
  <2>1. CASE \E a \in Answers[platform] :
                Pending(<<"ok">>, a, RenderAnswer(a.advice, a.heading, a.sources))
    <3>1. PICK a \in Answers[platform] :
                Pending(<<"ok">>, a, RenderAnswer(a.advice, a.heading, a.sources))
      BY <2>1
    <3>2. /\ request'.state = "answered" /\ request'.said = a /\ request'.status = <<"ok">>
          /\ request'.reply = RenderAnswer(a.advice, a.heading, a.sources)
      BY <1>1, <3>1, ReplyPending
    <3> QED BY <1>1, <3>2 DEF ReplyIsOf, AnswerIsOf, AnswerArrives
  <2>2. CASE Pending(<<"error">>, Null, <<"failed">>)
    <3>1. /\ request'.state = "answered" /\ request'.said = Null
          /\ request'.status = <<"error">> /\ request'.reply = <<"failed">>
      BY <1>1, <2>2, ReplyPending
    <3> QED BY <3>1 DEF ReplyIsOf, AnswerIsOf, AnswerArrives
  <2> QED BY <1>5, <2>1, <2>2 DEF ClaudeAnswers
<1>6. CASE NoPicture
  <2>1. /\ request'.state = "answered" /\ request'.said = Null
        /\ request'.status = <<"error">> /\ request'.reply = <<"failed">>
    BY <1>1, <1>6, ReplyPending DEF NoPicture
  <2> QED BY <2>1 DEF ReplyIsOf, AnswerIsOf, AnswerArrives
<1>7. CASE Ask \/ Take \/ AskClaude \/ Read
  <2>1. request'.state \in {"none", "sent", "ignored", "taken", "asked"}
    <3>1. CASE Ask
      <4>1. \E text, live, file :
              request' = [NoRequest EXCEPT !.state = "sent", !.text = text, !.live = live,
                                           !.file = file]
        BY <3>1 DEF Ask
      <4> QED BY <4>1 DEF NoRequest
    <3>4. CASE Read
      BY <3>4 DEF Read, NoRequest
    <3>2. CASE Take
      BY <1>1, <3>2 DEF Take, Advance, IsRequest, NoRequest
    <3>3. CASE AskClaude
      BY <1>1, <3>3, ReplyAdvances DEF AskClaude
    <3> QED BY <1>7, <3>1, <3>2, <3>3, <3>4
  <2> QED BY <2>1 DEF ReplyIsOf, AnswerIsOf, AnswerArrives
<1>8. CASE Sample \/ Tick \/ EndCapture \/ TakePicture \/ Desktop \/ UNCHANGED vars
  <2>1. UNCHANGED <<request, answer, message>>
    BY <1>8 DEF Sample, Tick, EndCapture, TakePicture, Desktop, vars
  <2> QED BY <1>1, <1>2, <2>1 DEF ReplyIsOf, AnswerIsOf, AnswerArrives
<1> QED BY <1>3, <1>4, <1>5, <1>6, <1>7, <1>8 DEF Next

\* Whatever Claude says that parse_structured_response accepts, whatever line ends it
\* has and whichever system the daemon runs on, write_response and the plugin
\* (ReadResponse and AddMessageLocked) agree on it: the player is shown its words, the
\* heading and a pill for each source, no line of it taken for the end of the file or
\* for the mark of the sources.  No answer, not that Claude has failed either, is lost
\* for another reason than that its file is larger than the plugin reads.
THEOREM AnswerReturns == Spec => []AnswerArrives
<1>1. AnswerInv => AnswerArrives
  BY DEF AnswerInv
<1>2. Spec => []AnswerInv
  BY AnswerInit, AnswerStays, PTL DEF Spec
<1> QED BY <1>1, <1>2, PTL
===============================================================================
