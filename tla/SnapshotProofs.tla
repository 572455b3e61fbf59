---------------------------- MODULE SnapshotProofs ----------------------------
(***************************************************************************)
(* Proofs about the snapshot of a world (Snapshot) and its text            *)
(* (BridgeText), for every world that satisfies the assumptions of         *)
(* Prompt: what a name is read back as, which sections are listed, that    *)
(* what is not listed is there, what the amounts are, and that the         *)
(* backend accepts it.  A loop of the code is a fold with an operator of   *)
(* its own; what is known of it comes from an instance of Folding with     *)
(* that operator.                                                          *)
(***************************************************************************)
EXTENDS Prompt, Integers, SequenceTheorems, FiniteSetTheorems, TLAPS

---------------------------------------------------------------------------
(***************************************************************************)
(* Lists                                                                   *)
(***************************************************************************)
Joining == INSTANCE Folding WITH op <- \o

\* A function that gives an element for each place is a list.
LEMMA ListOf ==
    ASSUME NEW S, NEW n, n \in Nat, NEW f, f = [i \in 1 .. n |-> f[i]],
           \A i \in 1 .. n : f[i] \in S
    PROVE  f \in Seq(S) /\ Len(f) = n /\ DOMAIN f = 1 .. n
OBVIOUS

\* Induction over the natural numbers, for sets.
LEMMA Induction ==
    ASSUME NEW S, 0 \in S, \A n \in Nat : n \in S => n + 1 \in S
    PROVE  Nat \subseteq S
BY Joining!SetInduction

\* A set of numbers that are not above a bound has a greatest element.
LEMMA MaxExists ==
    ASSUME NEW S \in SUBSET Int, S # {}, NEW n \in Int, \A y \in S : y <= n
    PROVE  Max(S) \in S /\ \A y \in S : y <= Max(S)
<1>1. Joining!Max(S) = Max(S)
  BY DEF Max, Joining!Max
<1> QED BY <1>1, Joining!MaxExists

\* The greatest element of a set is its maximum, and the least its minimum.
LEMMA MaxTop == ASSUME NEW S \in SUBSET Int, NEW m \in S, \A y \in S : y <= m
                PROVE  Max(S) = m
<1>1. Joining!Max(S) = Max(S)
  BY DEF Max, Joining!Max
<1> QED BY <1>1, Joining!MaxTop

\* The same for the minimum.
LEMMA MinBottom == ASSUME NEW S \in SUBSET Int, NEW m \in S, \A y \in S : m <= y
                   PROVE  Min(S) = m
<1>1. Joining!Min(S) = Min(S)
  BY DEF Min, Joining!Min
<1> QED BY <1>1, Joining!MinBottom

\* A set of natural numbers that is not empty has a least element.
LEMMA MinExists ==
    ASSUME NEW S \in SUBSET Nat, S # {}
    PROVE  Min(S) \in S /\ \A y \in S : Min(S) <= y
<1>1. PICK x \in S : \A y \in S : ~(y < x)
  BY Joining!LeastElement
<1>2. \A y \in S : x <= y
  BY <1>1
<1>3. Min(S) = x
  BY <1>2, MinBottom
<1> QED BY <1>2, <1>3

\* The first elements of a list.
LEMMA FirstPart ==
    ASSUME NEW S, NEW s \in Seq(S), NEW n \in Nat, n <= Len(s)
    PROVE  /\ SubSeq(s, 1, n) \in Seq(S) /\ Len(SubSeq(s, 1, n)) = n
           /\ \A i \in 1 .. n : SubSeq(s, 1, n)[i] = s[i]
OBVIOUS

\* One element more.
LEMMA OneMore ==
    ASSUME NEW S, NEW s \in Seq(S), NEW k \in Nat, k < Len(s)
    PROVE  s[k + 1] \in S /\ SubSeq(s, 1, k + 1) = Append(SubSeq(s, 1, k), s[k + 1])
OBVIOUS

\* FlattenSeq is the loop that appends each list to what there is.
LEMMA FlattenIsFold ==
    ASSUME NEW S, NEW seqs \in Seq(Seq(S))
    PROVE  FlattenSeq(seqs) = Joining!Fold(<<>>, seqs)
<1> DEFINE n == Len(seqs)
<1>1. n \in Nat /\ DOMAIN seqs = 1 .. n /\ \A k \in 1 .. n : seqs[k] \in Seq(S)
  OBVIOUS
<1>2. CASE n = 0
  <2>1. seqs = <<>>
    BY <1>2
  <2>2. FlattenSeq(seqs) = <<>>
    BY <2>1 DEF FlattenSeq
  <2> QED BY <2>1, <2>2, Joining!FoldEmpty
<1>3. CASE n # 0
  <2> HIDE DEF n
  <2> DEFINE Flat(f) == f = [i \in 1 .. n |-> IF i = 1 THEN seqs[i] ELSE f[i - 1] \o seqs[i]]
             flatten == CHOOSE f : Flat(f)
  <2>1. FlattenSeq(seqs) = flatten[n]
    BY <1>3 DEF FlattenSeq, n
  <2>2. PICK f : /\ DOMAIN f = 0 .. n /\ Joining!Series(<<>>, seqs, n, f)
                 /\ Joining!Fold(<<>>, seqs) = f[n]
    BY <1>1, Joining!FoldHasSeries
  <2> DEFINE g == [i \in 1 .. n |-> f[i]]
  <2>3. Flat(g)
    <3>1. ASSUME NEW i \in 1 .. n
          PROVE g[i] = IF i = 1 THEN seqs[i] ELSE g[i - 1] \o seqs[i]
      <4>1. f[i] = f[i - 1] \o seqs[i] /\ f[0] = <<>>
        BY <2>2 DEF Joining!Series
      <4>2. CASE i = 1
        <5>1. i - 1 = 0
          BY <4>2
        <5>2. f[i] = <<>> \o seqs[1]
          BY <4>1, <4>2, <5>1
        <5>3. seqs[1] \in Seq(S)
          BY <1>1, <4>2
        <5>4. <<>> \o seqs[1] = seqs[1]
          BY <5>3, ConcatEmptySeq
        <5> QED BY <4>2, <5>2, <5>4
      <4>3. CASE i # 1
        BY <4>1, <4>3, <1>1
      <4> QED BY <4>2, <4>3
    <3> QED BY <3>1
  <2>4. Flat(flatten)
    <3> HIDE DEF g
    <3>1. \E h : Flat(h)
      BY <2>3
    <3> HIDE DEF Flat
    <3> QED BY <3>1
  <2> HIDE DEF flatten
  <2>5. g = [i \in 1 .. n |-> g[i]] /\ g[n] = f[n]
    BY <1>1, <1>3
  <2>6. \A i \in 1 .. n : g[i] = IF i = 1 THEN seqs[i] ELSE g[i - 1] \o seqs[i]
    BY <2>3
  <2>7. \A i \in 1 .. n : flatten[i] = IF i = 1 THEN seqs[i] ELSE flatten[i - 1] \o seqs[i]
    BY <2>4
  <2> HIDE DEF Flat, g
  <2> DEFINE P == {k \in Nat : k + 1 \in 1 .. n => flatten[k + 1] = g[k + 1]}
  <2>8. 0 \in P
    BY <2>6, <2>7
  <2>9. ASSUME NEW k \in Nat, k \in P PROVE k + 1 \in P
    <3>1. CASE (k + 1) + 1 \in 1 .. n
      <4>1. k + 1 \in 1 .. n /\ ((k + 1) + 1) - 1 = k + 1 /\ (k + 1) + 1 # 1
        BY <1>1, <3>1
      <4>2. flatten[k + 1] = g[k + 1]
        BY <2>9, <4>1
      <4> QED BY <2>6, <2>7, <3>1, <4>1, <4>2
    <3>2. CASE (k + 1) + 1 \notin 1 .. n
      BY <3>2
    <3> QED BY <3>1, <3>2
  <2> HIDE DEF P
  <2>10. Nat \subseteq P
    BY <2>8, <2>9, Induction
  <2>11. n - 1 \in Nat /\ (n - 1) + 1 = n /\ n \in 1 .. n
    BY <1>1, <1>3
  <2>12. flatten[n] = g[n]
    BY <2>10, <2>11 DEF P
  <2> QED BY <2>1, <2>2, <2>5, <2>12
<1> QED BY <1>2, <1>3

\* What FlattenSeq makes of no lists, and of one list more.
LEMMA FlattenEmpty == FlattenSeq(<<>>) = <<>>
BY DEF FlattenSeq

\* One list more is appended to the rest.
LEMMA FlattenAppend ==
    ASSUME NEW S, NEW seqs \in Seq(Seq(S)), NEW s \in Seq(S)
    PROVE  FlattenSeq(Append(seqs, s)) = FlattenSeq(seqs) \o s
<1>1. Append(seqs, s) \in Seq(Seq(S))
  OBVIOUS
<1>2. Joining!Fold(<<>>, Append(seqs, s)) = Joining!Fold(<<>>, seqs) \o s
  BY Joining!FoldAppend
<1> QED BY <1>1, <1>2, FlattenIsFold

\* A set of lists that each step stays in has the result.
LEMMA FlattenStays ==
    ASSUME NEW S, NEW seqs \in Seq(Seq(S)), NEW P, <<>> \in P,
           \A acc \in P : \A i \in DOMAIN seqs : acc \o seqs[i] \in P
    PROVE  FlattenSeq(seqs) \in P
<1>1. Len(seqs) \in Nat /\ DOMAIN seqs = 1 .. Len(seqs)
  OBVIOUS
<1>2. Joining!Fold(<<>>, seqs) \in P
  BY <1>1, Joining!FoldStays
<1> QED BY <1>2, FlattenIsFold

\* The elements of the result are elements of the lists.
LEMMA FlattenType ==
    ASSUME NEW S, NEW seqs \in Seq(Seq(S)) PROVE FlattenSeq(seqs) \in Seq(S)
<1>1. \A acc \in Seq(S) : \A i \in DOMAIN seqs : acc \o seqs[i] \in Seq(S)
  OBVIOUS
<1>2. <<>> \in Seq(S)
  OBVIOUS
<1> QED BY <1>1, <1>2, FlattenStays

\* Two lists, one after the other.
Cat(s, t) == s \o t

\* An element after two lists is one after the second.
LEMMA CatAppend ==
    ASSUME NEW T, NEW a \in Seq(T), NEW b \in Seq(T), NEW x \in T
    PROVE  Cat(a, Append(b, x)) = Append(Cat(a, b), x)
<1>1. a \o Append(b, x) = Append(a \o b, x)
  OBVIOUS
<1> QED BY <1>1 DEF Cat

\* Three lists, put together in two ways.
LEMMA CatAssociative ==
    ASSUME NEW T, NEW a \in Seq(T), NEW b \in Seq(T), NEW c \in Seq(T)
    PROVE  Cat(Cat(a, b), c) = Cat(a, Cat(b, c))
BY ConcatAssociative DEF Cat

\* The lists of two lists, one after the other.
LEMMA FlattenConcat ==
    ASSUME NEW S, NEW s \in Seq(Seq(S)), NEW t \in Seq(Seq(S))
    PROVE  FlattenSeq(s \o t) = FlattenSeq(s) \o FlattenSeq(t)
<1> DEFINE P == {k \in Nat : k <= Len(t) => FlattenSeq(s \o SubSeq(t, 1, k)) = FlattenSeq(s) \o FlattenSeq(SubSeq(t, 1, k))}
<1>1. 0 \in P
  <2>1. SubSeq(t, 1, 0) = <<>>
    OBVIOUS
  <2>2. s \o <<>> = s
    BY ConcatEmptySeq
  <2>3. FlattenSeq(s) \in Seq(S)
    BY FlattenType
  <2>4. FlattenSeq(s) \o <<>> = FlattenSeq(s)
    BY <2>3, ConcatEmptySeq
  <2> QED BY <2>1, <2>2, <2>4, FlattenEmpty
<1>2. ASSUME NEW k \in Nat, k \in P PROVE k + 1 \in P
  <2> SUFFICES ASSUME k + 1 <= Len(t)
               PROVE FlattenSeq(s \o SubSeq(t, 1, k + 1)) = FlattenSeq(s) \o FlattenSeq(SubSeq(t, 1, k + 1))
    OBVIOUS
  <2> DEFINE u == SubSeq(t, 1, k)
             x == t[k + 1]
  <2>1. u \in Seq(Seq(S)) /\ x \in Seq(S) /\ SubSeq(t, 1, k + 1) = Append(u, x)
    <3> DEFINE T == Seq(S)
    <3>1. t \in Seq(T) /\ k < Len(t) /\ k <= Len(t)
      OBVIOUS
    <3> HIDE DEF T
    <3>2. u \in Seq(T)
      BY <3>1, FirstPart
    <3>3. x \in T /\ SubSeq(t, 1, k + 1) = Append(u, x)
      BY <3>1, OneMore
    <3> QED BY <3>2, <3>3 DEF T
  <2>2. FlattenSeq(s \o u) = FlattenSeq(s) \o FlattenSeq(u)
    BY <1>2
  <2> HIDE DEF u, x, P
  <2>3. s \o Append(u, x) = Append(s \o u, x)
    <3>1. Cat(s, Append(u, x)) = Append(Cat(s, u), x)
      BY <2>1, CatAppend
    <3> QED BY <3>1 DEF Cat
  <2>4. s \o u \in Seq(Seq(S))
    BY <2>1
  <2>5. FlattenSeq(s \o Append(u, x)) = (FlattenSeq(s) \o FlattenSeq(u)) \o x
    <3> DEFINE y == s \o u
    <3>1. y \in Seq(Seq(S)) /\ x \in Seq(S)
      BY <2>1, <2>4
    <3> HIDE DEF y
    <3>2. FlattenSeq(Append(y, x)) = FlattenSeq(y) \o x
      BY <3>1, FlattenAppend
    <3> QED BY <2>2, <2>3, <3>2 DEF y
  <2>6. FlattenSeq(Append(u, x)) = FlattenSeq(u) \o x
    BY <2>1, FlattenAppend
  <2>7. FlattenSeq(s) \in Seq(S) /\ FlattenSeq(u) \in Seq(S)
    BY <2>1, FlattenType
  <2> DEFINE a == FlattenSeq(s)
             b == FlattenSeq(u)
  <2>8. (a \o b) \o x = a \o (b \o x)
    <3>1. a \in Seq(S) /\ b \in Seq(S) /\ x \in Seq(S)
      BY <2>1, <2>7
    <3> HIDE DEF a, b
    <3>2. Cat(Cat(a, b), x) = Cat(a, Cat(b, x))
      BY <3>1, CatAssociative
    <3> QED BY <3>2 DEF Cat
  <2> QED BY <2>1, <2>5, <2>6, <2>8
<1> HIDE DEF P
<1>3. Nat \subseteq P
  BY <1>1, <1>2, Induction
<1>4. Len(t) \in Nat /\ SubSeq(t, 1, Len(t)) = t
  OBVIOUS
<1>5. FlattenSeq(s \o SubSeq(t, 1, Len(t))) = FlattenSeq(s) \o FlattenSeq(SubSeq(t, 1, Len(t)))
  BY <1>3, <1>4 DEF P
<1> QED BY <1>4, <1>5

---------------------------------------------------------------------------
(***************************************************************************)
(* The name of a building, cut to its limit and written as JSON            *)
(***************************************************************************)
\* A text that is cut is a prefix, of whole characters, and loses three bytes at most.
LEMMA TruncatedText ==
    ASSUME NEW v, Utf8(v), NEW limit \in Nat
    PROVE  LET r == TruncateUtf8(v, limit) IN
           /\ r \in Seq(Byte) /\ WellFormed(r) /\ Len(r) <= limit
           /\ IsPrefix(r, v)
           /\ r # v => Len(r) + 3 >= limit
<1>1. v \in Seq(Byte) /\ WellFormed(v)
  BY DEF Utf8
<1>2. CASE Len(v) <= limit
  <2>1. TruncateUtf8(v, limit) = v
    BY <1>2 DEF TruncateUtf8
  <2>2. IsPrefix(v, v)
    BY <1>1 DEF IsPrefix
  <2> QED BY <1>1, <1>2, <2>1, <2>2
<1>3. CASE ~(Len(v) <= limit)
  <2> DEFINE ends == {0} \cup {end \in 1 .. limit : v[end + 1] \notin Continuation}
             m == Max(ends)
             r == SubSeq(v, 1, m)
  <2>1. /\ ends \in SUBSET Int /\ ends # {} /\ \A y \in ends : y <= limit
        /\ ends \subseteq 0 .. limit
    OBVIOUS
  <2>2. m \in ends /\ \A y \in ends : y <= m
    <3> HIDE DEF ends
    <3> QED BY <2>1, MaxExists
  <2>3. TruncateUtf8(v, limit) = r
    BY <1>3 DEF TruncateUtf8
  <2>4. /\ m \in 0 .. limit
        /\ m = 0 \/ v[m + 1] \notin Continuation
        /\ \A end \in m + 1 .. limit : v[end + 1] \in Continuation
    <3> HIDE DEF m
    <3> QED BY <2>2
  <2> HIDE DEF m
  <2>5. /\ r \in Seq(Byte) /\ Len(r) = m /\ DOMAIN r = 1 .. m
        /\ \A i \in 1 .. m : r[i] = v[i]
    <3>1. Len(v) \in Nat /\ m <= Len(v) /\ m \in Nat
      BY <1>1, <1>3, <2>4
    <3> HIDE DEF ends
    <3> QED BY <1>1, <3>1, FirstPart
  <2>6. IsPrefix(r, v)
    <3>1. SubSeq(r, 1, Len(r)) = r
      BY <2>5
    <3>2. Len(r) <= Len(v) /\ r = SubSeq(v, 1, Len(r))
      BY <1>1, <1>3, <2>4, <2>5
    <3> HIDE DEF r
    <3> QED BY <3>1, <3>2 DEF IsPrefix
  <2>7. WellFormed(r)
    <3> SUFFICES ASSUME NEW i \in 1 .. m, v[i] \notin Continuation
                 PROVE  /\ i + Follow(v[i]) <= m
                        /\ \A j \in i + 1 .. i + Follow(v[i]) : r[j] \in Continuation
      BY <2>5 DEF WellFormed
    <3>1. Follow(v[i]) \in 0 .. 3
      BY DEF Follow
    <3>2. i \in DOMAIN v
      BY <1>1, <1>3, <2>4
    <3>3. \A j \in i + 1 .. i + Follow(v[i]) : v[j] \in Continuation
      BY <1>1, <3>2 DEF WellFormed
    <3>4. i + Follow(v[i]) <= m
      <4> SUFFICES ASSUME m < i + Follow(v[i]) PROVE FALSE
        BY <3>1, <2>4
      <4>1. m + 1 \in i + 1 .. i + Follow(v[i]) /\ m # 0
        BY <2>4, <3>1
      <4> QED BY <2>4, <3>3, <4>1
    <3>5. \A j \in i + 1 .. i + Follow(v[i]) : j \in 1 .. m
      BY <2>4, <3>1, <3>4
    <3> QED BY <2>5, <3>3, <3>4, <3>5
  <2>8. m + 3 >= limit
    <3> SUFFICES ASSUME m + 4 <= limit PROVE FALSE
      BY <2>4
    <3>1. \A j \in 1 .. 4 : m + j \in m + 1 .. limit /\ (m + j) + 1 \in DOMAIN v
      BY <1>1, <1>3, <2>4
    <3>2. \A j \in 1 .. 4 : v[(m + j) + 1] \in Continuation
      BY <2>4, <3>1
    <3>3. PICK j \in 1 .. 3 : v[((m + 4) + 1) - j] \notin Continuation
      <4>1. (m + 4) + 1 \in DOMAIN v /\ v[(m + 4) + 1] \in Continuation
        BY <3>1, <3>2
      <4> QED BY <4>1 DEF Utf8
    <3>4. 4 - j \in 1 .. 4 /\ (m + (4 - j)) + 1 = ((m + 4) + 1) - j
      BY <2>4
    <3> QED BY <3>2, <3>3, <3>4
  <2> QED BY <2>3, <2>4, <2>5, <2>6, <2>7, <2>8
<1> QED BY <1>2, <1>3

Loading == INSTANCE Folding WITH op <- LoadStep

\* What is written for a byte.
LEMMA Escaped ==
    ASSUME NEW c \in Byte
    PROVE  /\ c \in {8, 9, 10, 12, 13, 34, 92} =>
                Escape(c) = <<92, Short[c]>> /\ Short[c] \in {98, 116, 110, 102, 114, 34, 92}
           /\ c \notin {8, 9, 10, 12, 13, 34, 92} /\ c < 32 =>
                Escape(c) = <<92, 117, 48, 48, Hex(c \div 16), Hex(c % 16)>>
           /\ c \notin {8, 9, 10, 12, 13, 34, 92} /\ c >= 32 => Escape(c) = <<c>>
<1>1. DOMAIN Short = {8, 9, 10, 12, 13, 34, 92}
  BY DEF Short
<1>2. c \in DOMAIN Short => Short[c] \in {98, 116, 110, 102, 114, 34, 92}
  BY DEF Short
<1>3. CASE c \in DOMAIN Short
  BY <1>1, <1>2, <1>3 DEF Escape
<1>4. CASE c \notin DOMAIN Short /\ c < 32
  BY <1>1, <1>4 DEF Escape, Byte
<1>5. CASE c \notin DOMAIN Short /\ c >= 32
  BY <1>1, <1>5 DEF Escape, Byte
<1> QED BY <1>1, <1>3, <1>4, <1>5

\* The two digits of a control character.
LEMMA Digits ==
    ASSUME NEW c \in 0 .. 31
    PROVE  /\ Hex(c \div 16) \in {48, 49} /\ Hex(c % 16) \in (48 .. 57) \cup (97 .. 102)
           /\ 16 * Digit(Hex(c \div 16)) + Digit(Hex(c % 16)) = c
<1>1. c \div 16 \in {0, 1} /\ c % 16 \in 0 .. 15 /\ 16 * (c \div 16) + (c % 16) = c
  OBVIOUS
<1> QED BY <1>1 DEF Hex, Digit

\* Bytes that need no escape, and quotation marks that have one.
Quoted == {s \in Seq(32 .. 255) :
            \A i \in 1 .. Len(s) : s[i] = 34 => i > 1 /\ s[i - 1] = 92}

\* What a byte is written as is such a text.
LEMMA EscapeQuoted == ASSUME NEW c \in Byte PROVE Escape(c) \in Quoted
<1>1. CASE c \in {8, 9, 10, 12, 13, 34, 92}
  <2>1. PICK x \in 32 .. 255 : Escape(c) = <<92, x>>
    BY <1>1, Escaped
  <2> QED BY <2>1 DEF Quoted
<1>2. CASE c \notin {8, 9, 10, 12, 13, 34, 92} /\ c < 32
  <2>1. Escape(c) = <<92, 117, 48, 48, Hex(c \div 16), Hex(c % 16)>>
    BY <1>2, Escaped
  <2>2. c \in 0 .. 31
    BY <1>2 DEF Byte
  <2>3. PICK x \in 48 .. 102, y \in 48 .. 102 : x = Hex(c \div 16) /\ y = Hex(c % 16)
    <3> DEFINE h == Hex(c \div 16)
               l == Hex(c % 16)
    <3>1. h \in {48, 49} /\ l \in (48 .. 57) \cup (97 .. 102)
      BY <2>2, Digits
    <3> HIDE DEF h, l
    <3>2. h \in 48 .. 102
      BY <3>1
    <3>3. l \in 48 .. 102
      BY <3>1
    <3>4. \E x \in 48 .. 102, y \in 48 .. 102 : x = h /\ y = l
      BY <3>2, <3>3
    <3> QED BY <3>4 DEF h, l
  <2>4. Escape(c) = <<92, 117, 48, 48, x, y>>
    BY <2>1, <2>3
  <2> QED BY <2>4 DEF Quoted
<1>3. CASE c \notin {8, 9, 10, 12, 13, 34, 92} /\ c >= 32
  <2>1. Escape(c) = <<c>>
    BY <1>3, Escaped
  <2>2. c \in 32 .. 255 /\ c # 34
    BY <1>3 DEF Byte
  <2> QED BY <2>1, <2>2 DEF Quoted
<1> QED BY <1>1, <1>2, <1>3 DEF Byte

\* The escaped bytes of a text, one after the other.
Escapes(v) == FlattenSeq([i \in DOMAIN v |-> Escape(v[i])])

\* So is what is written for a string.
LEMMA EscapesQuoted == ASSUME NEW v \in Seq(Byte) PROVE Escapes(v) \in Quoted
<1> DEFINE all == [i \in DOMAIN v |-> Escape(v[i])]
<1> DEFINE Line == Seq(32 .. 255)
<1>1. \A i \in DOMAIN v : all[i] \in Quoted
  <2>1. \A i \in DOMAIN v : v[i] \in Byte
    OBVIOUS
  <2> QED BY <2>1, EscapeQuoted
<1>2. all \in Seq(Line)
  <2>1. \A i \in DOMAIN v : all[i] \in Line
    BY <1>1 DEF Quoted
  <2> HIDE DEF Line
  <2>2. DOMAIN v = 1 .. Len(v) /\ Len(v) \in Nat
    OBVIOUS
  <2> QED BY <2>1, <2>2
<1>3. DOMAIN all = DOMAIN v
  OBVIOUS
<1> HIDE DEF all
<1>4. ASSUME NEW acc \in Quoted, NEW x \in Quoted PROVE acc \o x \in Quoted
  <2>1. acc \in Seq(32 .. 255) /\ x \in Seq(32 .. 255)
    BY DEF Quoted
  <2> DEFINE u == acc \o x
  <2>2. /\ u \in Seq(32 .. 255) /\ Len(u) = Len(acc) + Len(x)
        /\ \A i \in 1 .. Len(acc) + Len(x) :
            u[i] = IF i <= Len(acc) THEN acc[i] ELSE x[i - Len(acc)]
    BY <2>1
  <2> HIDE DEF u
  <2>3. ASSUME NEW i \in 1 .. Len(u), u[i] = 34 PROVE i > 1 /\ u[i - 1] = 92
    <3>1. Len(acc) \in Nat /\ Len(x) \in Nat
      BY <2>1
    <3>2. CASE i <= Len(acc)
      <4>1. i \in 1 .. Len(acc) /\ acc[i] = 34
        BY <2>2, <2>3, <3>1, <3>2
      <4>2. i > 1 /\ acc[i - 1] = 92
        BY <4>1 DEF Quoted
      <4>3. i - 1 \in 1 .. Len(acc) + Len(x) /\ i - 1 <= Len(acc)
        BY <3>1, <3>2, <4>2
      <4> QED BY <2>2, <4>2, <4>3
    <3>3. CASE ~(i <= Len(acc))
      <4>1. i - Len(acc) \in 1 .. Len(x) /\ x[i - Len(acc)] = 34
        BY <2>2, <2>3, <3>1, <3>3
      <4>2. i - Len(acc) > 1 /\ x[(i - Len(acc)) - 1] = 92
        BY <4>1 DEF Quoted
      <4>3. i - 1 \in 1 .. Len(acc) + Len(x) /\ ~(i - 1 <= Len(acc))
            /\ (i - 1) - Len(acc) = (i - Len(acc)) - 1
        BY <2>2, <3>1, <3>3, <4>2
      <4> QED BY <2>2, <4>2, <4>3
    <3> QED BY <3>2, <3>3
  <2>4. u \in Quoted
    BY <2>2, <2>3 DEF Quoted
  <2> QED BY <2>4 DEF u
<1>5. <<>> \in Quoted
  BY DEF Quoted
<1>6. \A acc \in Quoted : \A i \in DOMAIN all : acc \o all[i] \in Quoted
  BY <1>1, <1>3, <1>4
<1>7. FlattenSeq(all) \in Quoted
  BY <1>2, <1>5, <1>6, FlattenStays
<1> QED BY <1>7 DEF all, Escapes

\* What json.loads has read so far.
Loaded(t) == [text |-> t, escape |-> <<>>]

\* What it does with a byte: an escape sequence begins,
LEMMA LoadBackslash ==
    ASSUME NEW acc, acc.escape = <<>>
    PROVE  LoadStep(acc, 92) = [text |-> acc.text, escape |-> <<92>>]
BY DEF LoadStep

\* or the byte stands for itself;
LEMMA LoadPlain ==
    ASSUME NEW acc, acc.escape = <<>>, NEW c \in Byte, c # 92
    PROVE  LoadStep(acc, c) = [text |-> Append(acc.text, c), escape |-> <<>>]
BY DEF LoadStep

\* a short sequence ends,
LEMMA LoadShort ==
    ASSUME NEW acc, acc.escape \in Seq(Byte), Len(acc.escape) = 1, NEW c \in Byte, c # 117
    PROVE  LoadStep(acc, c) = [text |-> Append(acc.text, Unescape(c)), escape |-> <<>>]
BY DEF LoadStep

\* a long one goes on
LEMMA LoadMore ==
    ASSUME NEW acc, acc.escape \in Seq(Byte), NEW c \in Byte, NEW n, n \in 1 .. 4,
           Len(acc.escape) = n, n = 1 => c = 117
    PROVE  LoadStep(acc, c) = [text |-> acc.text, escape |-> Append(acc.escape, c)]
<1>1. n \in 1 .. 4 /\ (n > 1 \/ c = 117) /\ ~(n = 1 /\ c # 117) /\ n # 0
  OBVIOUS
<1> QED BY <1>1 DEF LoadStep

\* and ends.
LEMMA LoadLast ==
    ASSUME NEW acc, acc.escape \in Seq(Byte), Len(acc.escape) = 5, NEW c \in Byte
    PROVE  LoadStep(acc, c)
                = [text |-> Append(acc.text, 16 * Digit(acc.escape[5]) + Digit(c)),
                   escape |-> <<>>]
BY DEF LoadStep

\* It reads back the byte that was escaped.
LEMMA LoadEscape ==
    ASSUME NEW t \in Seq(Byte), NEW c \in Byte
    PROVE  Loading!Fold(Loaded(t), Escape(c)) = Loaded(Append(t, c))
<1>1. CASE c \in {8, 9, 10, 12, 13, 34, 92}
  <2> DEFINE x == Short[c]
             s == <<92, x>>
  <2>1. /\ x \in {98, 116, 110, 102, 114, 34, 92} /\ c \in DOMAIN Short
        /\ \A d \in DOMAIN Short : Short[d] = x => d = c
    BY <1>1 DEF Short
  <2>2. Escape(c) = s
    BY <1>1, Escaped
  <2>3. Unescape(x) = c
    BY <2>1 DEF Unescape
  <2> HIDE DEF x
  <2>4. DOMAIN s = 1 .. 2 /\ s[1] = 92 /\ s[2] = x
    OBVIOUS
  <2> HIDE DEF s
  <2> DEFINE b == Loaded(t)
  <2>5. PICK f : Loading!Series(b, s, 2, f) /\ Loading!Fold(b, s) = f[2]
    <3> HIDE DEF b
    <3>1. 2 \in Nat /\ DOMAIN s = 1 .. 2
      BY <2>4
    <3> QED BY <3>1, Loading!FoldHasSeries
  <2>6. f[1] = LoadStep(b, 92) /\ f[2] = LoadStep(f[1], x)
    <3>1. 1 \in 1 .. 2 /\ 2 \in 1 .. 2 /\ 1 - 1 = 0 /\ 2 - 1 = 1
      OBVIOUS
    <3> QED BY <2>4, <2>5, <3>1 DEF Loading!Series
  <2> DEFINE one == <<92>>
  <2>7. one \in Seq(Byte) /\ Len(one) = 1
    BY DEF Byte
  <2> HIDE DEF one
  <2>8. f[1].text = t /\ f[1].escape = one
    <3>1. b.text = t /\ b.escape = <<>>
      BY DEF Loaded
    <3> HIDE DEF b
    <3>2. LoadStep(b, 92) = [text |-> t, escape |-> one]
      BY <3>1, LoadBackslash DEF one
    <3> QED BY <2>6, <3>2
  <2>9. f[2] = Loaded(Append(t, c))
    <3>1. x \in Byte /\ x # 117
      BY <2>1 DEF Byte
    <3>2. LoadStep(f[1], x) = [text |-> Append(t, Unescape(x)), escape |-> <<>>]
      BY <2>7, <2>8, <3>1, LoadShort
    <3> QED BY <2>3, <2>6, <3>2 DEF Loaded
  <2> QED BY <2>2, <2>5, <2>9
<1>2. CASE c \notin {8, 9, 10, 12, 13, 34, 92} /\ c < 32
  <2> DEFINE x == Hex(c \div 16)
             y == Hex(c % 16)
             s == <<92, 117, 48, 48, x, y>>
  <2>1. c \in 0 .. 31
    BY <1>2 DEF Byte
  <2>2. /\ x \in {48, 49} /\ y \in (48 .. 57) \cup (97 .. 102)
        /\ 16 * Digit(x) + Digit(y) = c
    BY <2>1, Digits
  <2>3. Escape(c) = s
    BY <1>2, Escaped
  <2> HIDE DEF x, y
  <2>4. /\ DOMAIN s = 1 .. 6 /\ s[1] = 92 /\ s[2] = 117 /\ s[3] = 48 /\ s[4] = 48
        /\ s[5] = x /\ s[6] = y
    OBVIOUS
  <2> HIDE DEF s
  <2> DEFINE b == Loaded(t)
  <2>5. PICK f : Loading!Series(b, s, 6, f) /\ Loading!Fold(b, s) = f[6]
    <3> HIDE DEF b
    <3> DEFINE n == 6
    <3>1. n \in Nat /\ DOMAIN s = 1 .. n
      BY <2>4
    <3> HIDE DEF n
    <3>2. \E f : Loading!Series(b, s, n, f) /\ Loading!Fold(b, s) = f[n]
      BY <3>1, Loading!FoldHasSeries
    <3> QED BY <3>2 DEF n
  <2>6. \A k \in 1 .. 6 : f[k] = LoadStep(f[k - 1], s[k])
    BY <2>5 DEF Loading!Series
  <2>7. f[1] = LoadStep(b, 92) /\ f[6] = LoadStep(f[5], y)
    <3>1. 1 \in 1 .. 6 /\ 6 \in 1 .. 6 /\ 1 - 1 = 0 /\ 6 - 1 = 5
      OBVIOUS
    <3> QED BY <2>4, <2>5, <2>6, <3>1 DEF Loading!Series
  <2>8. s \in Seq(Byte) /\ Len(s) = 6
    BY <2>2 DEF s, Byte
  <2> DEFINE SoFar(k) == f[k].text = t /\ f[k].escape = SubSeq(s, 1, k)
  <2>9. SoFar(1)
    <3>1. b.text = t /\ b.escape = <<>>
      BY DEF Loaded
    <3> DEFINE one == <<92>>
    <3>2. one = SubSeq(s, 1, 1)
      BY <2>4, <2>8
    <3> HIDE DEF b
    <3>3. LoadStep(b, 92) = [text |-> t, escape |-> one]
      BY <3>1, LoadBackslash
    <3> HIDE DEF one
    <3> QED BY <2>7, <3>2, <3>3
  <2>10. ASSUME NEW k, k \in 1 .. 4, SoFar(k) PROVE SoFar(k + 1)
    <3>1. k \in Nat /\ k + 1 \in 1 .. 6 /\ (k + 1) - 1 = k /\ k < Len(s) /\ k <= Len(s)
      BY <2>8, <2>10
    <3> DEFINE acc == f[k]
               d == s[k + 1]
               e == SubSeq(s, 1, k)
               long == SubSeq(s, 1, k + 1)
    <3>2. f[k + 1] = LoadStep(acc, d)
      BY <2>6, <3>1
    <3>3. acc.escape = e /\ acc.text = t
      BY <2>10
    <3>4. e \in Seq(Byte) /\ Len(e) = k
      BY <2>8, <3>1, FirstPart
    <3>5. d \in Byte /\ long = Append(e, d)
      BY <2>8, <3>1, OneMore
    <3>6. k \in 1 .. 4 /\ (k = 1 => d = 117)
      BY <2>4, <2>10
    <3> HIDE DEF acc, d, e, long
    <3>7. acc.escape \in Seq(Byte) /\ Len(acc.escape) = k
      BY <3>3, <3>4
    <3>8. LoadStep(acc, d) = [text |-> acc.text, escape |-> Append(acc.escape, d)]
      BY <3>5, <3>6, <3>7, LoadMore
    <3>9. f[k + 1].text = t /\ f[k + 1].escape = long
      BY <3>2, <3>3, <3>5, <3>8
    <3> QED BY <3>9 DEF long
  <2> HIDE DEF SoFar
  <2>11. SoFar(5)
    <3>1. 1 + 1 = 2 /\ 2 + 1 = 3 /\ 3 + 1 = 4 /\ 4 + 1 = 5
      OBVIOUS
    <3>2. SoFar(2)
      BY <2>9, <2>10, <3>1
    <3>3. SoFar(3)
      BY <2>10, <3>1, <3>2
    <3>4. SoFar(4)
      BY <2>10, <3>1, <3>3
    <3> QED BY <2>10, <3>1, <3>4
  <2>12. f[6] = Loaded(Append(t, c))
    <3> DEFINE acc == f[5]
    <3>1. acc.escape \in Seq(Byte) /\ Len(acc.escape) = 5 /\ acc.escape[5] = x /\ acc.text = t
      <4> DEFINE n == 5
      <4>1. n \in Nat /\ n <= Len(s) /\ n \in 1 .. n
        BY <2>8
      <4>2. acc.escape = SubSeq(s, 1, n) /\ acc.text = t
        BY <2>11 DEF SoFar
      <4> HIDE DEF n, acc
      <4> DEFINE p == SubSeq(s, 1, n)
      <4>3. p \in Seq(Byte) /\ Len(p) = n /\ \A i \in 1 .. n : p[i] = s[i]
        BY <2>8, <4>1, FirstPart
      <4> HIDE DEF p
      <4>4. acc.escape = p /\ p[n] = x
        BY <2>4, <4>1, <4>2, <4>3 DEF p, n
      <4> QED BY <4>2, <4>3, <4>4 DEF n
    <3>2. y \in Byte
      BY <2>2 DEF Byte
    <3> HIDE DEF acc
    <3>3. LoadStep(acc, y)
            = [text |-> Append(acc.text, 16 * Digit(acc.escape[5]) + Digit(y)), escape |-> <<>>]
      BY <3>1, <3>2, LoadLast
    <3> QED BY <2>2, <2>7, <3>1, <3>3 DEF Loaded, acc
  <2> QED BY <2>3, <2>5, <2>12
<1>3. CASE c \notin {8, 9, 10, 12, 13, 34, 92} /\ c >= 32
  <2>1. Escape(c) = <<c>>
    BY <1>3, Escaped
  <2>2. LoadStep(Loaded(t), c) = Loaded(Append(t, c))
    <3> DEFINE b == Loaded(t)
    <3>1. c # 92
      BY <1>3
    <3>2. b.text = t /\ b.escape = <<>>
      BY DEF Loaded
    <3> HIDE DEF b
    <3>3. LoadStep(b, c) = [text |-> Append(t, c), escape |-> <<>>]
      BY <3>1, <3>2, LoadPlain
    <3> QED BY <3>3 DEF Loaded, b
  <2> QED BY <2>1, <2>2, Loading!FoldOne
<1> QED BY <1>1, <1>2, <1>3 DEF Byte

\* The loop of LoadStep is the one of Load.
LEMMA LoadIsFold == \A b, s : Loading!Fold(b, s) = FoldLeft(LoadStep, b, s)
BY DEF Loading!Fold, FoldLeft, Loading!FoldLeft, MapThenFoldSet, Loading!MapThenFoldSet,
       Max, Loading!Max

\* A text that is written as a string and loaded is the same text.
LEMMA LoadReadsBack == ASSUME NEW v \in Seq(Byte) PROVE Load(JsonString(v)) = v
<1> DEFINE Line == Seq(32 .. 255)
           text(k) == SubSeq(v, 1, k)
           P == {k \in Nat : k <= Len(v) =>
                    Loading!Fold(Loaded(<<>>), Escapes(text(k))) = Loaded(text(k))}
<1>1. 0 \in P
  <2>1. text(0) = <<>>
    OBVIOUS
  <2>2. Escapes(<<>>) = <<>>
    BY FlattenEmpty DEF Escapes
  <2> QED BY <2>1, <2>2, Loading!FoldEmpty
<1>2. ASSUME NEW k \in Nat, k \in P PROVE k + 1 \in P
  <2> SUFFICES ASSUME k + 1 <= Len(v)
               PROVE  Loading!Fold(Loaded(<<>>), Escapes(text(k + 1))) = Loaded(text(k + 1))
    OBVIOUS
  <2> DEFINE u == text(k)
             c == v[k + 1]
             escapes == [i \in DOMAIN u |-> Escape(u[i])]
  <2>1. u \in Seq(Byte) /\ c \in Byte /\ text(k + 1) = Append(u, c)
    OBVIOUS
  <2>2. Loading!Fold(Loaded(<<>>), Escapes(u)) = Loaded(u)
    BY <1>2
  <2> HIDE DEF u, c
  <2>3. \A x \in Byte : Escape(x) \in Line
    BY EscapeQuoted DEF Quoted
  <2>4. \A i \in DOMAIN u : u[i] \in Byte
    BY <2>1
  <2>5. escapes \in Seq(Line) /\ Escape(c) \in Line /\ DOMAIN u = 1 .. Len(u) /\ Len(u) \in Nat
    <3> HIDE DEF Line
    <3>1. \A i \in DOMAIN u : Escape(u[i]) \in Line
      BY <2>3, <2>4
    <3> QED BY <2>1, <2>3, <3>1
  <2>6. [i \in DOMAIN Append(u, c) |-> Escape(Append(u, c)[i])] = Append(escapes, Escape(c))
    <3>1. DOMAIN Append(u, c) = 1 .. Len(u) + 1
      BY <2>1
    <3>2. /\ \A i \in 1 .. Len(u) : Append(u, c)[i] = u[i]
          /\ Append(u, c)[Len(u) + 1] = c
      BY <2>1
    <3> DEFINE s == [i \in DOMAIN Append(u, c) |-> Escape(Append(u, c)[i])]
               x == Escape(c)
    <3>3. /\ DOMAIN s = 1 .. Len(u) + 1 /\ s[Len(u) + 1] = x
          /\ \A i \in 1 .. Len(u) : s[i] = escapes[i]
      BY <2>5, <3>1, <3>2
    <3>4. DOMAIN escapes = 1 .. Len(u) /\ s = [i \in DOMAIN s |-> s[i]]
      BY <2>5
    <3>5. x \in Line /\ Len(escapes) = Len(u)
      BY <2>5
    <3> HIDE DEF s, x, escapes, Line
    <3>6. DOMAIN Append(escapes, x) = 1 .. Len(u) + 1
      BY <2>5, <3>5
    <3>7. \A i \in 1 .. Len(u) + 1 : Append(escapes, x)[i] = s[i]
      BY <2>5, <3>3, <3>5
    <3>8. s \in Seq(Line)
      <4>1. \A i \in 1 .. Len(u) : escapes[i] \in Line
        BY <2>5, <3>4
      <4>2. \A i \in 1 .. Len(u) + 1 : s[i] \in Line
        BY <2>5, <3>3, <3>5, <4>1
      <4>3. Len(u) + 1 \in Nat /\ s = [i \in 1 .. Len(u) + 1 |-> s[i]]
        BY <2>5, <3>3, <3>4
      <4> QED BY <4>2, <4>3, ListOf
    <3>9. s = Append(escapes, x)
      BY <2>5, <3>3, <3>5, <3>6, <3>7, <3>8, SeqEqual
    <3> QED BY <3>9 DEF s, x
  <2>7. Escapes(Append(u, c)) = Escapes(u) \o Escape(c)
    <3> HIDE DEF escapes, Line
    <3>1. FlattenSeq(Append(escapes, Escape(c))) = FlattenSeq(escapes) \o Escape(c)
      BY <2>5, FlattenAppend DEF Line
    <3> QED BY <2>6, <3>1 DEF Escapes, escapes
  <2>8. Escapes(u) \in Line
    BY <2>1, EscapesQuoted DEF Quoted
  <2>9. Loading!Fold(Loaded(<<>>), Escapes(u) \o Escape(c))
            = Loading!Fold(Loading!Fold(Loaded(<<>>), Escapes(u)), Escape(c))
    BY <2>5, <2>8, Loading!FoldConcat
  <2> QED BY <2>1, <2>2, <2>7, <2>9, LoadEscape
<1> HIDE DEF P
<1>3. Nat \subseteq P
  BY <1>1, <1>2, Induction
<1>4. text(Len(v)) = v /\ Len(v) \in Nat
  OBVIOUS
<1>5. Loading!Fold(Loaded(<<>>), Escapes(v)) = Loaded(v)
  <2>1. Len(v) \in P
    BY <1>3, <1>4
  <2>2. Loading!Fold(Loaded(<<>>), Escapes(text(Len(v)))) = Loaded(text(Len(v)))
    BY <1>4, <2>1 DEF P
  <2> HIDE DEF text
  <2> QED BY <1>4, <2>2
<1>6. SubSeq(JsonString(v), 2, Len(JsonString(v)) - 1) = Escapes(v)
  <2> DEFINE e == Escapes(v)
             json == <<34>> \o e \o <<34>>
  <2>1. JsonString(v) = json
    BY DEF JsonString, Escapes
  <2>2. e \in Seq(32 .. 255)
    BY EscapesQuoted DEF Quoted
  <2> HIDE DEF e
  <2>3. SubSeq(json, 2, Len(json) - 1) = e
    BY <2>2
  <2> QED BY <2>1, <2>3 DEF e
<1>7. Load(JsonString(v)) = FoldLeft(LoadStep, Loaded(<<>>), Escapes(v)).text
  BY <1>6 DEF Load, Loaded
<1>8. Loaded(v).text = v
  BY DEF Loaded
<1> QED BY <1>5, <1>7, <1>8, LoadIsFold

---------------------------------------------------------------------------
(***************************************************************************)
(* The sections of a snapshot                                              *)
(***************************************************************************)
\* The sections that are read.
LEMMA SectionsRead ==
    ASSUME NEW w
    PROVE  LET s == ReadSections(w) IN
           /\ Len(s) = 8 /\ DOMAIN s = 1 .. 8
           /\ s[1].name = "inventory" /\ s[2].name = "gems" /\ s[3].name = "objectives"
           /\ s[4].name = "environment" /\ s[5].name = "target" /\ s[6].name = "base"
           /\ s[7].name = "session" /\ s[8].name = "progression"
           /\ s[1].value = BuildInventory(w.player) /\ s[2].value = BuildGems(w.player)
           /\ s[3].value = BuildObjectives(w.game)
           /\ s[4].value = BuildEnvironment(w.waves, w.game)
           /\ s[5].value = BuildTarget(w.player, w.controller)
           /\ s[6].value = BuildBase(w.game)
           /\ s[7].value = BuildSession(w.game, w.local)
           /\ s[8].value = BuildProgression(w.game, w.controller)
BY DEF ReadSections

\* Where each is.
Place == [name \in Nested \cup {"inventory", "gems"} |->
    CASE name = "inventory" -> 1 [] name = "gems" -> 2 [] name = "objectives" -> 3
      [] name = "environment" -> 4 [] name = "target" -> 5 [] name = "base" -> 6
      [] name = "session" -> 7 [] name = "progression" -> 8]

\* The places, written out.
LEMMA Places8 ==
    /\ Place["inventory"] = 1 /\ Place["gems"] = 2 /\ Place["objectives"] = 3
    /\ Place["environment"] = 4 /\ Place["target"] = 5 /\ Place["base"] = 6
    /\ Place["session"] = 7 /\ Place["progression"] = 8
BY DEF Place, Nested

\* The value of the section with a name, in any list of sections.
LEMMA ValueAt ==
    ASSUME NEW s, NEW n, n \in Nat, Len(s) = n, NEW k, k \in 1 .. n, NEW name,
           s[k].name = name, \A i \in 1 .. n : s[i].name = name => i = k
    PROVE  Value(s, name) = IF s[k].value.available THEN s[k].value ELSE Null
<1>1. SelectInSeq(s, LAMBDA x : x.name = name) = k
  <2> DEFINE I == {i \in 1 .. Len(s) : s[i].name = name}
  <2>1. I = {k}
    OBVIOUS
  <2>2. Min({k}) = k
    <3>1. {k} \in SUBSET Int /\ k \in {k} /\ \A y \in {k} : k <= y
      OBVIOUS
    <3> QED BY <3>1, MinBottom
  <2> QED BY <2>1, <2>2 DEF SelectInSeq
<1> QED BY <1>1 DEF Value

\* The sections that are read have different names.
LEMMA SectionNames ==
    ASSUME NEW w, NEW name \in Nested \cup {"inventory", "gems"}
    PROVE  LET s == ReadSections(w)
               k == Place[name]
           IN k \in 1 .. 8 /\ s[k].name = name /\ \A i \in 1 .. 8 : s[i].name = name => i = k
<1> DEFINE s == ReadSections(w)
           k == Place[name]
           Found == k \in 1 .. 8 /\ s[k].name = name /\ \A i \in 1 .. 8 : s[i].name = name => i = k
<1>1. /\ s[1].name = "inventory" /\ s[2].name = "gems" /\ s[3].name = "objectives"
      /\ s[4].name = "environment" /\ s[5].name = "target" /\ s[6].name = "base"
      /\ s[7].name = "session" /\ s[8].name = "progression"
  BY SectionsRead
<1> HIDE DEF s
<1>2. \A i \in 1 .. 8 : i = 1 \/ i = 2 \/ i = 3 \/ i = 4 \/ i = 5 \/ i = 6 \/ i = 7 \/ i = 8
  OBVIOUS
<1>3. 1 \in 1 .. 8 /\ 2 \in 1 .. 8 /\ 3 \in 1 .. 8 /\ 4 \in 1 .. 8
      /\ 5 \in 1 .. 8 /\ 6 \in 1 .. 8 /\ 7 \in 1 .. 8 /\ 8 \in 1 .. 8
  OBVIOUS
<1>4. ASSUME name = "inventory" PROVE Found
  BY <1>1, <1>2, <1>3, <1>4, Places8
<1>5. ASSUME name = "gems" PROVE Found
  BY <1>1, <1>2, <1>3, <1>5, Places8
<1>6. ASSUME name = "objectives" PROVE Found
  BY <1>1, <1>2, <1>3, <1>6, Places8
<1>7. ASSUME name = "environment" PROVE Found
  BY <1>1, <1>2, <1>3, <1>7, Places8
<1>8. ASSUME name = "target" PROVE Found
  BY <1>1, <1>2, <1>3, <1>8, Places8
<1>9. ASSUME name = "base" PROVE Found
  BY <1>1, <1>2, <1>3, <1>9, Places8
<1>10. ASSUME name = "session" PROVE Found
  BY <1>1, <1>2, <1>3, <1>10, Places8
<1>11. ASSUME name = "progression" PROVE Found
  BY <1>1, <1>2, <1>3, <1>11, Places8
<1> QED BY <1>4, <1>5, <1>6, <1>7, <1>8, <1>9, <1>10, <1>11 DEF Nested, Found, k, s

\* The value of a section is the one at its place, if there is any.
LEMMA ValueRead ==
    ASSUME NEW w, NEW name \in Nested \cup {"inventory", "gems"}
    PROVE  LET s == ReadSections(w)
               k == Place[name]
           IN /\ k \in 1 .. 8 /\ s[k].name = name
              /\ Value(s, name) = IF s[k].value.available THEN s[k].value ELSE Null
<1> DEFINE s == ReadSections(w)
           k == Place[name]
           n == 8
<1>1. n \in Nat /\ Len(s) = n
  BY SectionsRead
<1>2. k \in 1 .. n /\ s[k].name = name /\ \A i \in 1 .. n : s[i].name = name => i = k
  BY SectionNames
<1> HIDE DEF n, s, k
<1>3. Value(s, name) = IF s[k].value.available THEN s[k].value ELSE Null
  BY <1>1, <1>2, ValueAt
<1> QED BY <1>2, <1>3 DEF s, k, n

\* What Capture makes of a world in which there is a character to play.
LEMMA Captured ==
    ASSUME NEW w, w.pawn = "ready"
    PROVE  LET sections == ReadSections(w)
               whole == Whole(w, sections)
               doc == Capture(w)
           IN /\ doc.available /\ doc.size = Size(w, doc.body)
              /\ doc.missing = Missing(sections)
              /\ \/ /\ doc.body = whole /\ doc.truncated = Truncated(sections)
                    /\ doc.partial = (doc.missing # <<>> \/ doc.truncated # <<>>)
                    /\ doc.size <= MaxSnapshotBytes
                 \/ /\ doc.body = Prune(whole) /\ doc.truncated = Listed(Truncated(sections))
                    /\ doc.partial = TRUE /\ doc.size <= MaxSnapshotBytes
                 \/ /\ doc.body = [part \in Core |-> whole[part]]
                    /\ doc.truncated = Listed(Truncated(sections)) /\ doc.partial = TRUE
                    /\ ~Fits(w, Prune(whole))
<1> DEFINE sections == ReadSections(w)
           whole == Whole(w, sections)
           core == [part \in Core |-> whole[part]]
           fit == Fit(w, whole)
           doc == Capture(w)
<1>1. \/ fit = <<whole, "whole">> /\ Fits(w, whole)
      \/ fit = <<Prune(whole), "pruned">> /\ Fits(w, Prune(whole))
      \/ fit = <<core, "minimal">> /\ ~Fits(w, Prune(whole))
  BY DEF Fit
<1>2. /\ doc.available /\ doc.missing = Missing(sections) /\ doc.body = fit[1]
      /\ doc.size = Size(w, fit[1])
      /\ doc.truncated = IF fit[2] = "whole" THEN Truncated(sections)
                         ELSE Listed(Truncated(sections))
      /\ doc.partial = (fit[2] # "whole" \/ doc.missing # <<>> \/ doc.truncated # <<>>)
  BY DEF Capture
<1> HIDE DEF sections, whole, fit, doc, core
<1>3. CASE fit = <<whole, "whole">> /\ Fits(w, whole)
  <2>1. fit[1] = whole /\ fit[2] = "whole"
    BY <1>3
  <2> QED BY <1>2, <1>3, <2>1 DEF sections, whole, doc, Fits
<1>4. CASE fit = <<Prune(whole), "pruned">> /\ Fits(w, Prune(whole))
  <2>1. fit[1] = Prune(whole) /\ fit[2] = "pruned"
    BY <1>4
  <2> QED BY <1>2, <1>4, <2>1 DEF sections, whole, doc, Fits
<1>5. CASE fit = <<core, "minimal">> /\ ~Fits(w, Prune(whole))
  <2>1. fit[1] = core /\ fit[2] = "minimal"
    BY <1>5
  <2> QED BY <1>2, <1>5, <2>1 DEF sections, whole, doc, core
<1> QED BY <1>1, <1>3, <1>4, <1>5

\* Of a world in which there is none.
LEMMA NotCaptured ==
    ASSUME NEW w, w.pawn # "ready"
    PROVE  LET doc == Capture(w) IN
           /\ doc.available = FALSE /\ doc.missing = AllSections /\ doc.truncated = <<>>
           /\ doc.partial = TRUE /\ doc.size = 0 /\ doc.body = <<>>
BY DEF Capture, BuildUnavailableSnapshot

\* A part of the body is the value of its section, or null.
LEMMA CapturedPart ==
    ASSUME NEW w, w.pawn = "ready", NEW name \in Nested \cup {"inventory", "gems"}
    PROVE  LET sections == ReadSections(w)
               value == Value(sections, name)
               pruned == {"inventory", "gems", "progression", "objectives"}
               doc == Capture(w)
           IN /\ name \in DOMAIN doc.body => doc.body[name] \in {value, Null}
              /\ name \in DOMAIN doc.body /\ name \notin pruned => doc.body[name] = value
              /\ (name \in DOMAIN doc.body /\ doc.body[name] = value)
                 \/ doc.truncated = Listed(Truncated(sections))
<1> DEFINE sections == ReadSections(w)
           whole == Whole(w, sections)
           doc == Capture(w)
           value == Value(sections, name)
<1>1. name \notin Core
  BY DEF Nested, Core
<1>2. name \in DOMAIN whole /\ whole[name] = value
  BY DEF Whole, Nested
<1> HIDE DEF whole, value
<1>3. CASE doc.body = whole
  BY <1>2, <1>3 DEF value
<1>4. CASE doc.body = Prune(whole) /\ doc.truncated = Listed(Truncated(sections))
  BY <1>2, <1>4 DEF Prune, value
<1>5. CASE doc.body = [part \in Core |-> whole[part]] /\ doc.truncated = Listed(Truncated(sections))
  BY <1>1, <1>5
<1> QED BY <1>3, <1>4, <1>5, Captured DEF whole

---------------------------------------------------------------------------
(***************************************************************************)
(* The name in a snapshot                                                  *)
(***************************************************************************)
\* The target is one of five actors, and a building shows its name.
LEMMA TargetActor ==
    ASSUME NEW player, NEW controller
    PROVE  LET target == BuildTarget(player, controller) IN
           /\ target.available
           /\ target.actor # Null =>
                /\ target.actor \in {controller.interaction, controller.interactable,
                                     controller.building, player.looking, player.aiming}
                /\ target.actor.building => target.display = SafeText(target.actor.display)
<1> DEFINE candidates == <<controller.interaction, controller.interactable,
                           controller.building, player.looking, player.aiming>>
           I == {i \in 1 .. Len(candidates) : candidates[i] # Null}
           first == SelectInSeq(candidates, LAMBDA t : t # Null)
           target == BuildTarget(player, controller)
<1>1. first = IF I # {} THEN Min(I) ELSE 0
  BY DEF SelectInSeq
<1>2. \A i \in 1 .. Len(candidates) : candidates[i] \in
            {controller.interaction, controller.interactable,
             controller.building, player.looking, player.aiming}
  <2>1. Len(candidates) = 5
    OBVIOUS
  <2>2. \A i \in 1 .. 5 : i = 1 \/ i = 2 \/ i = 3 \/ i = 4 \/ i = 5
    OBVIOUS
  <2> QED BY <2>1, <2>2
<1>3. first # 0 => first \in I
  <2>1. I \in SUBSET Nat
    OBVIOUS
  <2> HIDE DEF I
  <2> QED BY <1>1, <2>1, MinExists
<1>4. first = 0 => target.available /\ target.actor = Null
  BY DEF BuildTarget
<1>5. first # 0 => /\ target.available /\ target.actor = candidates[first]
                   /\ target.display = IF candidates[first].building
                                       THEN SafeText(candidates[first].display) ELSE <<>>
  BY DEF BuildTarget
<1>6. first \in I => candidates[first] \in
            {controller.interaction, controller.interactable,
             controller.building, player.looking, player.aiming}
  BY <1>2
<1> HIDE DEF candidates, I, first, target
<1>7. CASE first = 0
  BY <1>4, <1>7 DEF target
<1>8. CASE first # 0
  BY <1>3, <1>5, <1>6, <1>8 DEF target
<1> QED BY <1>7, <1>8

\* A name of the game as it is shown.
LEMMA ShownText ==
    ASSUME NEW name, name = Null \/ Utf8(name)
    PROVE  LET shown == SafeText(name) IN
           /\ shown \in Seq(Byte) /\ WellFormed(shown)
           /\ shown # <<>> => IsPrefix(shown, name) /\ Len(shown) <= MaxStringBytes
           /\ name # Null /\ shown # name /\ Len(name) < MaxTextCodeUnits =>
                Len(shown) + 3 >= MaxStringBytes
<1> DEFINE shown == SafeText(name)
<1>1. <<>> \in Seq(Byte) /\ WellFormed(<<>>)
  BY DEF WellFormed
<1>2. MaxStringBytes \in Nat /\ MaxTextCodeUnits \in Nat
  BY SectionsAssumption
<1>3. CASE name = Null
  BY <1>1, <1>3 DEF SafeText
<1>4. CASE name # Null
  <2>1. name \in Seq(Byte) /\ Utf8(name)
    BY <1>4 DEF Utf8
  <2>2. Len(name) \in Nat
    BY <2>1
  <2>3. CASE Len(name) + 1 > MaxTextCodeUnits
    <3>1. shown = <<>>
      BY <2>3 DEF SafeText
    <3>2. ~(Len(name) < MaxTextCodeUnits)
      BY <1>2, <2>2, <2>3
    <3> QED BY <1>1, <3>1, <3>2
  <2>4. CASE ~(Len(name) + 1 > MaxTextCodeUnits)
    <3>1. shown = TruncateUtf8(name, MaxStringBytes)
      BY <1>4, <2>4 DEF SafeText
    <3> HIDE DEF shown
    <3> QED BY <1>2, <2>1, <3>1, TruncatedText DEF shown
  <2> QED BY <2>3, <2>4
<1> QED BY <1>3, <1>4

\* A text written as JSON is one line that ends where it should.
LEMMA JsonLine ==
    ASSUME NEW v \in Seq(Byte)
    PROVE  LET json == JsonString(v) IN
           /\ \A i \in DOMAIN json : json[i] >= 32
           /\ \A i \in 2 .. Len(json) - 1 : json[i] = 34 => json[i - 1] = 92
<1> DEFINE e == Escapes(v)
           json == JsonString(v)
<1>1. e \in Quoted
  BY EscapesQuoted
<1>2. json = <<34>> \o e \o <<34>>
  BY DEF JsonString, Escapes
<1>3. e \in Seq(32 .. 255) /\ \A i \in 1 .. Len(e) : e[i] = 34 => i > 1 /\ e[i - 1] = 92
  BY <1>1 DEF Quoted
<1> HIDE DEF e, json
<1> DEFINE n == Len(e)
<1>4. /\ n \in Nat /\ DOMAIN json = 1 .. n + 2 /\ Len(json) = n + 2
      /\ json[1] = 34 /\ json[n + 2] = 34
      /\ \A i \in 2 .. n + 1 : json[i] = e[i - 1]
  BY <1>2, <1>3
<1>5. \A i \in 1 .. n : e[i] >= 32
  <2> DEFINE S == 32 .. 255
  <2>1. e \in Seq(S)
    BY <1>3
  <2>2. \A x \in S : x >= 32
    OBVIOUS
  <2> HIDE DEF S
  <2>3. \A i \in 1 .. n : e[i] \in S
    BY <2>1
  <2> QED BY <2>2, <2>3
<1>6. \A i \in 1 .. n : e[i] = 34 => i > 1 /\ e[i - 1] = 92
  BY <1>3
<1> HIDE DEF n
<1>7. ASSUME NEW i \in DOMAIN json PROVE json[i] >= 32
  <2>1. i = 1 \/ i = n + 2 \/ (i \in 2 .. n + 1 /\ i - 1 \in 1 .. n)
    BY <1>4
  <2>2. CASE i \in 2 .. n + 1 /\ i - 1 \in 1 .. n
    <3>1. json[i] = e[i - 1] /\ e[i - 1] >= 32
      BY <1>4, <1>5, <2>2
    <3> QED BY <3>1
  <2>3. CASE i = 1 \/ i = n + 2
    <3>1. json[i] = 34
      BY <1>4, <2>3
    <3> QED BY <3>1
  <2> QED BY <2>1, <2>2, <2>3
<1>8. ASSUME NEW i \in 2 .. Len(json) - 1, json[i] = 34 PROVE json[i - 1] = 92
  <2>1. i \in 2 .. n + 1 /\ i - 1 \in 1 .. n /\ e[i - 1] = 34
    BY <1>4, <1>8
  <2>2. i - 1 > 1 /\ e[(i - 1) - 1] = 92
    BY <1>6, <2>1
  <2>3. i - 1 \in 2 .. n + 1
    BY <1>4, <2>1, <2>2
  <2> QED BY <1>4, <2>2, <2>3
<1> QED BY <1>7, <1>8 DEF json

\* The name of a building that the player may look at.
LEMMA NamesOfWorld ==
    ASSUME NEW p \in Platforms, NEW w \in Worlds[p],
           Capture(w).available, "target" \in DOMAIN Capture(w).body,
           Capture(w).body["target"].actor # Null,
           Capture(w).body["target"].actor.building
    PROVE  LET name == Capture(w).body["target"].actor.display
               shown == Capture(w).body["target"].display
               json == JsonString(shown)
           IN /\ \A i \in DOMAIN json : json[i] >= 32
              /\ \A i \in 2 .. Len(json) - 1 : json[i] = 34 => json[i - 1] = 92
              /\ Load(json) = shown
              /\ WellFormed(shown)
              /\ shown # <<>> => IsPrefix(shown, name) /\ Len(shown) <= MaxStringBytes
              /\ name # Null /\ shown # name /\ Len(name) < MaxTextCodeUnits =>
                    Len(shown) + 3 >= MaxStringBytes
<1> DEFINE section == Capture(w).body["target"]
           target == BuildTarget(w.player, w.controller)
<1>1. w.pawn = "ready"
  BY NotCaptured
<1>2. "target" \in Nested \cup {"inventory", "gems"}
      /\ "target" \notin {"inventory", "gems", "progression", "objectives"}
  BY DEF Nested
<1>3. section = Value(ReadSections(w), "target")
  BY <1>1, <1>2, CapturedPart
<1>4. ReadSections(w)[5].value = target
  BY SectionsRead
<1>5. section = IF target.available THEN target ELSE Null
  BY <1>2, <1>3, <1>4, ValueRead, Places8
<1>6. section = target
  BY <1>5, TargetActor
<1>7. target.actor # Null /\ target.actor.building
  BY <1>6
<1> DEFINE name == target.actor.display
           shown == target.display
<1>8. shown = SafeText(name)
  BY <1>7, TargetActor
<1>9. name = Null \/ Utf8(name)
  <2>1. w \in UNION {Worlds[q] : q \in Platforms}
    OBVIOUS
  <2>2. target.actor \in {w.controller.interaction, w.controller.interactable,
                      w.controller.building, w.player.looking, w.player.aiming} \ {Null}
    BY <1>7, TargetActor
  <2> QED BY <1>7, <2>1, <2>2, WorldsAssumption DEF IsText
<1> HIDE DEF target
<1>10. /\ shown \in Seq(Byte) /\ WellFormed(shown)
       /\ shown # <<>> => IsPrefix(shown, name) /\ Len(shown) <= MaxStringBytes
       /\ name # Null /\ shown # name /\ Len(name) < MaxTextCodeUnits =>
            Len(shown) + 3 >= MaxStringBytes
  BY <1>8, <1>9, ShownText
<1> HIDE DEF name, shown
<1>11. Load(JsonString(shown)) = shown
  BY <1>10, LoadReadsBack
<1>12. /\ \A i \in DOMAIN JsonString(shown) : JsonString(shown)[i] >= 32
       /\ \A i \in 2 .. Len(JsonString(shown)) - 1 :
            JsonString(shown)[i] = 34 => JsonString(shown)[i - 1] = 92
  BY <1>10, JsonLine
<1> QED BY <1>6, <1>10, <1>11, <1>12 DEF name, shown, section

---------------------------------------------------------------------------
(***************************************************************************)
(* What is selected from a list                                            *)
(***************************************************************************)
\* A set that has the empty list, and with a list every one that is one element
\* longer, has all of them.
LEMMA ListInduction ==
    ASSUME NEW S, NEW G, <<>> \in G,
           \A t \in Seq(S) : t \in G => \A x \in S : Append(t, x) \in G
    PROVE  \A s \in Seq(S) : s \in G
<1> SUFFICES ASSUME NEW s \in Seq(S) PROVE s \in G
  OBVIOUS
<1> DEFINE P == {k \in Nat : k <= Len(s) => SubSeq(s, 1, k) \in G}
<1>1. 0 \in P
  <2>1. SubSeq(s, 1, 0) = <<>>
    OBVIOUS
  <2> QED BY <2>1
<1>2. ASSUME NEW k \in Nat, k \in P PROVE k + 1 \in P
  <2> SUFFICES ASSUME k + 1 <= Len(s) PROVE SubSeq(s, 1, k + 1) \in G
    OBVIOUS
  <2> DEFINE t == SubSeq(s, 1, k)
  <2>1. k < Len(s) /\ k <= Len(s) /\ Len(s) \in Nat
    OBVIOUS
  <2>2. t \in G
    BY <1>2, <2>1
  <2>3. s[k + 1] \in S /\ SubSeq(s, 1, k + 1) = Append(t, s[k + 1])
    BY <2>1, OneMore
  <2>4. t \in Seq(S)
    BY <2>1, FirstPart
  <2> HIDE DEF t
  <2> QED BY <2>2, <2>3, <2>4
<1> HIDE DEF P
<1>3. Len(s) \in P
  <2>1. Len(s) \in Nat
    OBVIOUS
  <2>2. Nat \subseteq P
    BY <1>1, <1>2, Induction
  <2> QED BY <2>1, <2>2
<1>4. SubSeq(s, 1, Len(s)) = s /\ Len(s) \in Nat /\ Len(s) <= Len(s)
  OBVIOUS
<1> QED BY <1>3, <1>4 DEF P

\* The elements of a list that has become longer.
LEMMA RangeAppend ==
    ASSUME NEW S, NEW s \in Seq(S), NEW x \in S
    PROVE  /\ Append(s, x) \in Seq(S) /\ Len(Append(s, x)) = Len(s) + 1 /\ Len(s) \in Nat
           /\ ToSet(Append(s, x)) = ToSet(s) \cup {x}
<1> DEFINE u == Append(s, x)
           n == Len(s)
<1>1. n \in Nat /\ DOMAIN s = 1 .. n /\ DOMAIN u = 1 .. n + 1 /\ u \in Seq(S)
      /\ Len(u) = n + 1 /\ u[n + 1] = x /\ \A i \in 1 .. n : u[i] = s[i]
  OBVIOUS
<1> HIDE DEF u, n
<1>2. 1 .. n + 1 = (1 .. n) \cup {n + 1}
  BY <1>1
<1>3. ToSet(u) = ToSet(s) \cup {x}
  BY <1>1, <1>2 DEF ToSet
<1> QED BY <1>1, <1>3 DEF u, n

\* The elements of a list that are in a set, in their order.
Selected(s, T) == FlattenSeq([i \in DOMAIN s |-> IF s[i] \in T THEN <<s[i]>> ELSE <<>>])

\* What a loop over an empty list keeps.
LEMMA SelectedEmpty == ASSUME NEW T PROVE Selected(<<>>, T) = <<>>
<1>1. [i \in DOMAIN <<>> |-> IF <<>>[i] \in T THEN <<<<>>[i]>> ELSE <<>>] = <<>>
  OBVIOUS
<1> QED BY <1>1, FlattenEmpty DEF Selected

\* One element more.
LEMMA SelectedAppend ==
    ASSUME NEW S, NEW s \in Seq(S), NEW x \in S, NEW T
    PROVE  /\ Selected(s, T) \in Seq(S)
           /\ Selected(Append(s, x), T) =
                IF x \in T THEN Append(Selected(s, T), x) ELSE Selected(s, T)
<1> DEFINE parts == [i \in DOMAIN s |-> IF s[i] \in T THEN <<s[i]>> ELSE <<>>]
           u == Append(s, x)
           last == IF x \in T THEN <<x>> ELSE <<>>
           more == [i \in DOMAIN u |-> IF u[i] \in T THEN <<u[i]>> ELSE <<>>]
           n == Len(s)
<1>1. n \in Nat /\ DOMAIN s = 1 .. n /\ DOMAIN u = 1 .. n + 1
      /\ u[n + 1] = x /\ \A i \in 1 .. n : u[i] = s[i] /\ s[i] \in S
  OBVIOUS
<1> HIDE DEF u, n
<1>2. \A i \in 1 .. n : parts[i] \in Seq(S)
  BY <1>1
<1>3. DOMAIN parts = 1 .. n
  BY <1>1
<1>4. parts \in Seq(Seq(S)) /\ Len(parts) = n
  <2> HIDE DEF parts
  <2>1. parts = [i \in 1 .. n |-> parts[i]]
    BY <1>3 DEF parts
  <2> QED BY <1>1, <1>2, <2>1
<1>5. last \in Seq(S)
  OBVIOUS
<1>6. more = Append(parts, last)
  <2>1. DOMAIN more = 1 .. n + 1 /\ \A i \in 1 .. n : more[i] = parts[i]
    BY <1>1
  <2>2. more[n + 1] = last
    BY <1>1
  <2> HIDE DEF more, parts, last
  <2> DEFINE a == Append(parts, last)
  <2>3. a \in Seq(Seq(S)) /\ Len(a) = n + 1 /\ DOMAIN a = 1 .. n + 1
    BY <1>4, <1>5
  <2>4. \A i \in 1 .. n : a[i] = parts[i]
    BY <1>1, <1>4, <1>5
  <2>5. a[n + 1] = last
    BY <1>1, <1>4, <1>5
  <2> HIDE DEF a
  <2>6. \A i \in 1 .. n + 1 : more[i] = a[i]
    BY <1>1, <2>1, <2>2, <2>4, <2>5
  <2>7. more = [i \in 1 .. n + 1 |-> more[i]] /\ a = [i \in 1 .. n + 1 |-> a[i]]
    BY <2>1, <2>3 DEF more
  <2>8. more = a
    BY <2>6, <2>7
  <2> QED BY <2>8 DEF a
<1> HIDE DEF parts, more, last
<1>7. FlattenSeq(more) = FlattenSeq(parts) \o last
  BY <1>4, <1>5, <1>6, FlattenAppend
<1>8. FlattenSeq(parts) \in Seq(S)
  BY <1>4, FlattenType
<1>9. CASE x \in T
  <2>1. last = <<x>>
    BY <1>9 DEF last
  <2> DEFINE f == FlattenSeq(parts)
  <2> HIDE DEF f
  <2>2. f \o <<x>> = Append(f, x)
    BY <1>8, AppendIsConcat DEF f
  <2> QED BY <1>7, <1>8, <1>9, <2>1, <2>2 DEF Selected, parts, more, u, f
<1>10. CASE x \notin T
  <2>1. last = <<>>
    BY <1>10 DEF last
  <2>2. FlattenSeq(parts) \o <<>> = FlattenSeq(parts)
    BY <1>8, ConcatEmptySeq
  <2> QED BY <1>7, <1>8, <1>10, <2>1, <2>2 DEF Selected, parts, more, u
<1> QED BY <1>9, <1>10

\* The elements that are kept.
LEMMA SelectedRange ==
    ASSUME NEW S, NEW s \in Seq(S), NEW T
    PROVE  /\ Selected(s, T) \in Seq(S)
           /\ ToSet(Selected(s, T)) = ToSet(s) \cap T
           /\ Len(Selected(s, T)) <= Len(s)
<1> DEFINE Good(t) == /\ Selected(t, T) \in Seq(S)
                      /\ ToSet(Selected(t, T)) = ToSet(t) \cap T
                      /\ Len(Selected(t, T)) <= Len(t)
           G == {t \in Seq(S) : Good(t)}
<1>1. <<>> \in G
  <2>1. Len(<<>>) <= Len(<<>>) /\ <<>> \in Seq(S) /\ ToSet(<<>>) = {}
    BY DEF ToSet
  <2> QED BY <2>1, SelectedEmpty
<1>2. ASSUME NEW t \in Seq(S), t \in G, NEW x \in S PROVE Append(t, x) \in G
  <2> DEFINE r == Selected(t, T)
             u == Append(t, x)
  <2>1. Selected(u, T) = IF x \in T THEN Append(r, x) ELSE r
    BY SelectedAppend
  <2>2. r \in Seq(S) /\ ToSet(r) = ToSet(t) \cap T /\ Len(r) <= Len(t)
    BY <1>2
  <2>3. u \in Seq(S) /\ Len(u) = Len(t) + 1 /\ Len(t) \in Nat /\ ToSet(u) = ToSet(t) \cup {x}
    BY RangeAppend
  <2> HIDE DEF r, u
  <2>4. Append(r, x) \in Seq(S) /\ Len(Append(r, x)) = Len(r) + 1 /\ Len(r) \in Nat
        /\ ToSet(Append(r, x)) = ToSet(r) \cup {x}
    BY <2>2, RangeAppend
  <2>5. Good(u)
    BY <2>1, <2>2, <2>3, <2>4
  <2> HIDE DEF Good
  <2>6. u \in G
    BY <2>3, <2>5
  <2> QED BY <2>6 DEF u
<1> HIDE DEF G
<1>3. s \in G
  BY <1>1, <1>2, ListInduction
<1> QED BY <1>3 DEF G

---------------------------------------------------------------------------
(***************************************************************************)
(* The lists of sections that are missing or cut                           *)
(***************************************************************************)
Naming == INSTANCE Folding WITH op <- AddSectionName
Lacking == INSTANCE Folding WITH op <- AddMissing
Cutting == INSTANCE Folding WITH op <- AddTruncated

\* Lists of sections in which none is twice.
Names == ToSet(AllSections)
NameLists == {l \in Seq(Names) : Len(l) = Cardinality(ToSet(l))}

\* There are ten sections.
LEMMA TenNames ==
    /\ Names = {"player", "inventory", "gems", "equipment", "session", "progression",
                "objectives", "environment", "target", "base"}
    /\ IsFiniteSet(Names) /\ Cardinality(Names) <= 10
<1> DEFINE a == AllSections
<1>1. DOMAIN a = 1 .. 10
  BY DEF AllSections
<1>2. /\ a[1] = "player" /\ a[2] = "inventory" /\ a[3] = "gems" /\ a[4] = "equipment"
      /\ a[5] = "session" /\ a[6] = "progression" /\ a[7] = "objectives"
      /\ a[8] = "environment" /\ a[9] = "target" /\ a[10] = "base"
  BY DEF AllSections
<1> HIDE DEF a
<1>3. Names = {a[i] : i \in 1 .. 10}
  BY <1>1 DEF Names, ToSet, a
<1>4. 1 .. 10 = {1, 2, 3, 4, 5, 6, 7, 8, 9, 10}
  OBVIOUS
<1>5. Names = {"player", "inventory", "gems", "equipment", "session", "progression",
                "objectives", "environment", "target", "base"}
  BY <1>2, <1>3, <1>4
<1>6. IsFiniteSet(1 .. 10) /\ Cardinality(1 .. 10) = 10
  <2> DEFINE n == 10
  <2>1. n \in Int /\ 1 \in Int /\ ~(1 > n) /\ n - 1 + 1 = n
    OBVIOUS
  <2> HIDE DEF n
  <2>2. IsFiniteSet(1 .. n) /\ Cardinality(1 .. n) = n
    BY <2>1, FS_Interval
  <2> QED BY <2>2 DEF n
<1>7. a \in Surjection(1 .. 10, Names)
  <2>1. AllSections = [i \in DOMAIN AllSections |-> AllSections[i]]
    BY DEF AllSections
  <2>2. a = [i \in 1 .. 10 |-> a[i]]
    BY <1>1, <2>1 DEF a
  <2> QED BY <1>3, <2>2 DEF Surjection
<1>8. IsFiniteSet(Names) /\ Cardinality(Names) <= Cardinality(1 .. 10)
  BY <1>6, <1>7, FS_Surjection
<1> QED BY <1>5, <1>6, <1>8

\* The backend accepts such a list.
LEMMA NamesAreValid == ASSUME NEW l \in NameLists PROVE ValidSectionList(l)
<1>1. l \in Seq(Names) /\ Len(l) = Cardinality(ToSet(l))
  BY DEF NameLists
<1>2. ToSet(l) \subseteq Names
  BY <1>1 DEF ToSet
<1>3. Cardinality(ToSet(l)) <= Cardinality(Names)
  BY <1>2, TenNames, FS_Subset
<1>4. Len(l) <= 32
  <2>1. Cardinality(Names) \in Nat /\ Len(l) \in Nat
    BY <1>1, TenNames, FS_CardinalityType
  <2> QED BY <1>1, <1>3, <2>1, TenNames
<1> QED BY <1>1, <1>2, <1>4 DEF ValidSectionList, Names

\* One section more.
LEMMA NameAdded ==
    ASSUME NEW l \in NameLists, NEW x \in Names
    PROVE  /\ AddSectionName(l, x) \in NameLists
           /\ ToSet(AddSectionName(l, x)) = ToSet(l) \cup {x}
<1>1. l \in Seq(Names) /\ Len(l) = Cardinality(ToSet(l))
  BY DEF NameLists
<1>2. CASE Contains(l, x)
  <2>1. x \in ToSet(l)
    BY <1>1, <1>2 DEF Contains, ToSet
  <2>2. AddSectionName(l, x) = l
    BY <1>2 DEF AddSectionName
  <2> QED BY <2>1, <2>2
<1>3. CASE ~Contains(l, x)
  <2> DEFINE S == ToSet(l)
  <2>1. x \notin S
    <3>1. DOMAIN l = 1 .. Len(l)
      BY <1>1
    <3> QED BY <1>3, <3>1 DEF Contains, ToSet
  <2>2. AddSectionName(l, x) = Append(l, x)
    BY <1>3 DEF AddSectionName
  <2>3. /\ Append(l, x) \in Seq(Names) /\ Len(Append(l, x)) = Len(l) + 1
        /\ ToSet(Append(l, x)) = S \cup {x}
    BY <1>1, RangeAppend
  <2>4. S \subseteq Names
    BY <1>1 DEF ToSet
  <2>5. IsFiniteSet(S)
    BY <2>4, TenNames, FS_Subset
  <2>6. Len(l) = Cardinality(S)
    BY <1>1
  <2> HIDE DEF S
  <2>7. Cardinality(S \cup {x}) = Cardinality(S) + 1
    BY <2>1, <2>5, FS_AddElement
  <2> QED BY <2>2, <2>3, <2>6, <2>7 DEF NameLists, S
<1> QED BY <1>2, <1>3

\* The list without sections.
LEMMA NoNames == <<>> \in NameLists /\ ToSet(<<>>) = {}
<1>1. ToSet(<<>>) = {} /\ Len(<<>>) = 0 /\ <<>> \in Seq(Names)
  BY DEF ToSet
<1> QED BY <1>1, FS_EmptySet DEF NameLists

\* The list with all of them, of a snapshot without sections.
LEMMA EveryName == AllSections \in NameLists
<1> DEFINE a == AllSections
           ten == 1 .. 10
<1>1. DOMAIN a = 1 .. 10 /\ Len(a) = 10
  BY DEF AllSections
<1>2. /\ a[1] = "player" /\ a[2] = "inventory" /\ a[3] = "gems" /\ a[4] = "equipment"
      /\ a[5] = "session" /\ a[6] = "progression" /\ a[7] = "objectives"
      /\ a[8] = "environment" /\ a[9] = "target" /\ a[10] = "base"
  BY DEF AllSections
<1>3. a = [i \in ten |-> a[i]]
  <2>1. a = [i \in DOMAIN a |-> a[i]]
    BY DEF AllSections
  <2> QED BY <1>1, <2>1
<1> HIDE DEF a
<1>4. Names = {a[i] : i \in ten}
  BY <1>1 DEF Names, ToSet, a
<1>5. ten = {1, 2, 3, 4, 5, 6, 7, 8, 9, 10}
  OBVIOUS
<1>6. \A i, j \in ten : a[i] = a[j] => i = j
  <2> SUFFICES ASSUME NEW i \in ten, NEW j \in ten, a[i] = a[j] PROVE i = j
    OBVIOUS
  <2>1. /\ i \in {1, 2, 3, 4, 5, 6, 7, 8, 9, 10}
        /\ j \in {1, 2, 3, 4, 5, 6, 7, 8, 9, 10}
    BY <1>5
  <2> QED BY <1>2, <2>1
<1>7. IsFiniteSet(ten) /\ Cardinality(ten) = 10
  <2> DEFINE n == 10
  <2>1. n \in Int /\ 1 \in Int /\ ~(1 > n) /\ n - 1 + 1 = n
    OBVIOUS
  <2> HIDE DEF n
  <2>2. IsFiniteSet(1 .. n) /\ Cardinality(1 .. n) = n
    BY <2>1, FS_Interval
  <2> QED BY <2>2 DEF n
<1> HIDE DEF ten
<1>8. a \in Surjection(ten, Names) /\ a \in Injection(ten, Names)
  <2>1. a \in [ten -> Names]
    BY <1>3, <1>4
  <2>2. \A t \in Names : \E i \in ten : a[i] = t
    BY <1>4
  <2>3. a \in Surjection(ten, Names)
    BY <2>1, <2>2, <1>4 DEF Surjection
  <2>4. a \in Injection(ten, Names)
    BY <2>1, <1>6 DEF Injection, IsInjective
  <2> QED BY <2>3, <2>4
<1>9. Cardinality(Names) = 10
  BY <1>7, <1>8, FS_Surjection
<1>10. a \in Seq(Names) /\ ToSet(a) = Names
  <2>1. a \in [1 .. 10 -> Names]
    BY <1>8 DEF Surjection, ten
  <2>2. ToSet(a) = Names
    BY DEF Names, a
  <2> HIDE DEF a
  <2>4. a \in Seq(Names)
    <3> DEFINE n == 10
    <3>1. n \in Nat /\ a \in [1 .. n -> Names]
      BY <2>1
    <3> HIDE DEF n
    <3> QED BY <3>1
  <2> QED BY <2>2, <2>4
<1>11. Len(a) = Cardinality(ToSet(a))
  BY <1>1, <1>9, <1>10
<1> QED BY <1>10, <1>11 DEF NameLists, a

\* The loops of these sections.
LEMMA NamingIsFold == \A b, s : Naming!Fold(b, s) = FoldLeft(AddSectionName, b, s)
BY DEF Naming!Fold, FoldLeft, Naming!FoldLeft, MapThenFoldSet, Naming!MapThenFoldSet,
       Max, Naming!Max

\* The same for the lists of what is missing and of what is cut.
LEMMA LackingIsFold == \A b, s : Lacking!Fold(b, s) = FoldLeft(AddMissing, b, s)
BY DEF Lacking!Fold, FoldLeft, Lacking!FoldLeft, MapThenFoldSet, Lacking!MapThenFoldSet,
       Max, Lacking!Max

\* The same for the other one.
LEMMA CuttingIsFold == \A b, s : Cutting!Fold(b, s) = FoldLeft(AddTruncated, b, s)
BY DEF Cutting!Fold, FoldLeft, Cutting!FoldLeft, MapThenFoldSet, Cutting!MapThenFoldSet,
       Max, Cutting!Max

\* The names of the sections before the k-th for which a flag is set.
Flagged(s, flag, k) == {s[j].name : j \in {i \in 1 .. k : flag[i]}}

\* The next section is one of them if its flag is set.
LEMMA FlaggedStep ==
    ASSUME NEW s, NEW flag, NEW k, k \in Nat \ {0}
    PROVE  Flagged(s, flag, k) =
            IF flag[k] THEN Flagged(s, flag, k - 1) \cup {s[k].name} ELSE Flagged(s, flag, k - 1)
<1>1. \A i : i \in 1 .. k <=> i \in 1 .. k - 1 \/ i = k
  OBVIOUS
<1> QED BY <1>1 DEF Flagged

\* The sections that are missing are listed.
LEMMA MissingNames ==
    ASSUME NEW s, NEW n, n \in Nat, DOMAIN s = 1 .. n, \A k \in 1 .. n : s[k].name \in Names
    PROVE  /\ Missing(s) \in NameLists
           /\ \A k \in 1 .. n : ~s[k].value.available => s[k].name \in ToSet(Missing(s))
<1> DEFINE flag == [k \in 1 .. n |-> ~s[k].value.available]
           R == [k \in 0 .. n |-> {l \in NameLists : ToSet(l) = Flagged(s, flag, k)}]
<1>1. <<>> \in R[0]
  <2>1. Flagged(s, flag, 0) = {}
    <3>1. 1 .. 0 = {}
      OBVIOUS
    <3> QED BY <3>1 DEF Flagged
  <2>2. 0 \in 0 .. n
    OBVIOUS
  <2> HIDE DEF flag
  <2> QED BY <2>1, <2>2, NoNames
<1>2. ASSUME NEW k \in 1 .. n, NEW l \in R[k - 1] PROVE AddMissing(l, s[k]) \in R[k]
  <2>1. k - 1 \in 0 .. n /\ k \in 0 .. n /\ k \in Nat \ {0}
    OBVIOUS
  <2>2. l \in NameLists /\ ToSet(l) = Flagged(s, flag, k - 1)
    BY <2>1
  <2>3. Flagged(s, flag, k) = IF flag[k] THEN Flagged(s, flag, k - 1) \cup {s[k].name}
                              ELSE Flagged(s, flag, k - 1)
    BY <2>1, FlaggedStep
  <2>4. flag[k] = ~s[k].value.available
    OBVIOUS
  <2>5. AddMissing(l, s[k]) \in NameLists /\ ToSet(AddMissing(l, s[k])) = Flagged(s, flag, k)
    BY <2>2, <2>3, <2>4, NameAdded DEF AddMissing
  <2> QED BY <2>1, <2>5
<1> HIDE DEF R
<1>3. Lacking!Fold(<<>>, s) \in R[n]
  BY <1>1, <1>2, Lacking!FoldKeeps
<1>4. Missing(s) \in NameLists /\ ToSet(Missing(s)) = Flagged(s, flag, n)
  BY <1>3, LackingIsFold DEF R, Missing
<1> QED BY <1>4 DEF Flagged

\* The sections that show less than there is are listed.
LEMMA TruncatedNames ==
    ASSUME NEW s, NEW n, n \in Nat, DOMAIN s = 1 .. n, \A k \in 1 .. n : s[k].name \in Names
    PROVE  /\ Truncated(s) \in NameLists
           /\ \A k \in 1 .. n : s[k].value.truncated => s[k].name \in ToSet(Truncated(s))
<1> DEFINE flag == [k \in 1 .. n |-> s[k].value.truncated]
           R == [k \in 0 .. n |-> {l \in NameLists : ToSet(l) = Flagged(s, flag, k)}]
<1>1. <<>> \in R[0]
  <2>1. Flagged(s, flag, 0) = {}
    <3>1. 1 .. 0 = {}
      OBVIOUS
    <3> QED BY <3>1 DEF Flagged
  <2>2. 0 \in 0 .. n
    OBVIOUS
  <2> HIDE DEF flag
  <2> QED BY <2>1, <2>2, NoNames
<1>2. ASSUME NEW k \in 1 .. n, NEW l \in R[k - 1] PROVE AddTruncated(l, s[k]) \in R[k]
  <2>1. k - 1 \in 0 .. n /\ k \in 0 .. n /\ k \in Nat \ {0}
    OBVIOUS
  <2>2. l \in NameLists /\ ToSet(l) = Flagged(s, flag, k - 1)
    BY <2>1
  <2>3. Flagged(s, flag, k) = IF flag[k] THEN Flagged(s, flag, k - 1) \cup {s[k].name}
                              ELSE Flagged(s, flag, k - 1)
    BY <2>1, FlaggedStep
  <2>4. flag[k] = s[k].value.truncated
    OBVIOUS
  <2>5. AddTruncated(l, s[k]) \in NameLists /\ ToSet(AddTruncated(l, s[k])) = Flagged(s, flag, k)
    BY <2>2, <2>3, <2>4, NameAdded DEF AddTruncated
  <2> QED BY <2>1, <2>5
<1> HIDE DEF R
<1>3. Cutting!Fold(<<>>, s) \in R[n]
  BY <1>1, <1>2, Cutting!FoldKeeps
<1>4. Truncated(s) \in NameLists /\ ToSet(Truncated(s)) = Flagged(s, flag, n)
  BY <1>3, CuttingIsFold DEF R, Truncated
<1> QED BY <1>4 DEF Flagged

\* What is pruned is listed.
LEMMA PrunedNames ==
    ASSUME NEW l \in NameLists
    PROVE  /\ Listed(l) \in NameLists /\ Listed(l) # <<>>
           /\ ToSet(l) \subseteq ToSet(Listed(l))
           /\ {"inventory", "gems", "progression", "objectives"} \subseteq ToSet(Listed(l))
<1> DEFINE n == 4
           gone(k) == {Pruned[i] : i \in 1 .. k}
           R == [k \in 0 .. n |-> {m \in NameLists : ToSet(m) = ToSet(l) \cup gone(k)}]
<1>1. n \in Nat /\ DOMAIN Pruned = 1 .. n
  BY DEF Pruned
<1>2. /\ Pruned[1] = "inventory" /\ Pruned[2] = "gems"
      /\ Pruned[3] = "progression" /\ Pruned[4] = "objectives"
  BY DEF Pruned
<1>3. \A k \in 1 .. n : Pruned[k] \in Names
  <2>1. \A k \in 1 .. n : k = 1 \/ k = 2 \/ k = 3 \/ k = 4
    OBVIOUS
  <2> QED BY <1>2, <2>1, TenNames
<1>4. {"inventory", "gems", "progression", "objectives"} \subseteq gone(n)
  <2>1. 1 \in 1 .. n /\ 2 \in 1 .. n /\ 3 \in 1 .. n /\ 4 \in 1 .. n
    OBVIOUS
  <2> QED BY <1>2, <2>1
<1> HIDE DEF n
<1>5. l \in R[0]
  <2>1. gone(0) = {} /\ 0 \in 0 .. n
    BY <1>1
  <2> QED BY <2>1
<1>6. ASSUME NEW k \in 1 .. n, NEW m \in R[k - 1] PROVE AddSectionName(m, Pruned[k]) \in R[k]
  <2>1. k - 1 \in 0 .. n /\ k \in 0 .. n
    BY <1>1
  <2>2. m \in NameLists /\ ToSet(m) = ToSet(l) \cup gone(k - 1)
    BY <2>1
  <2>3. gone(k) = gone(k - 1) \cup {Pruned[k]}
    <3>1. \A i : i \in 1 .. k <=> i \in 1 .. k - 1 \/ i = k
      BY <1>1
    <3> QED BY <3>1
  <2> HIDE DEF gone
  <2>4. AddSectionName(m, Pruned[k]) \in NameLists
        /\ ToSet(AddSectionName(m, Pruned[k])) = ToSet(m) \cup {Pruned[k]}
    BY <1>3, <2>2, NameAdded
  <2>5. ToSet(AddSectionName(m, Pruned[k])) = ToSet(l) \cup gone(k)
    BY <2>2, <2>3, <2>4
  <2> QED BY <2>1, <2>4, <2>5
<1> HIDE DEF R
<1>7. Naming!Fold(l, Pruned) \in R[n]
  BY <1>1, <1>5, <1>6, Naming!FoldKeeps
<1>8. Listed(l) = Naming!Fold(l, Pruned)
  BY NamingIsFold DEF Listed
<1>9. Listed(l) \in NameLists /\ ToSet(Listed(l)) = ToSet(l) \cup gone(n)
  BY <1>1, <1>7, <1>8 DEF R
<1>10. Listed(l) # <<>>
  BY <1>4, <1>9, NoNames
<1> QED BY <1>4, <1>9, <1>10

\* The lists of a snapshot.
LEMMA SectionLists ==
    ASSUME NEW w, w.pawn = "ready"
    PROVE  LET doc == Capture(w)
               s == ReadSections(w)
           IN /\ doc.missing \in NameLists /\ doc.truncated \in NameLists
              /\ doc.partial = (doc.missing # <<>> \/ doc.truncated # <<>>)
              /\ \A k \in 1 .. 8 : ~s[k].value.available => s[k].name \in ToSet(doc.missing)
              /\ \A k \in 1 .. 8 : s[k].value.truncated => s[k].name \in ToSet(doc.truncated)
              /\ doc.truncated = Listed(Truncated(s)) =>
                    {"inventory", "gems", "progression", "objectives"} \subseteq ToSet(doc.truncated)
<1> DEFINE doc == Capture(w)
           s == ReadSections(w)
           n == 8
<1>1. n \in Nat /\ DOMAIN s = 1 .. n
  BY SectionsRead
<1>2. \A k \in 1 .. n : s[k].name \in Names
  <2>1. /\ s[1].name = "inventory" /\ s[2].name = "gems" /\ s[3].name = "objectives"
        /\ s[4].name = "environment" /\ s[5].name = "target" /\ s[6].name = "base"
        /\ s[7].name = "session" /\ s[8].name = "progression"
    BY SectionsRead
  <2>2. \A i \in 1 .. n : i = 1 \/ i = 2 \/ i = 3 \/ i = 4 \/ i = 5 \/ i = 6 \/ i = 7 \/ i = 8
    OBVIOUS
  <2> HIDE DEF s
  <2> QED BY <2>1, <2>2, TenNames
<1> HIDE DEF n, s
<1>3. /\ Missing(s) \in NameLists
      /\ \A k \in 1 .. n : ~s[k].value.available => s[k].name \in ToSet(Missing(s))
  BY <1>1, <1>2, MissingNames
<1>4. /\ Truncated(s) \in NameLists
      /\ \A k \in 1 .. n : s[k].value.truncated => s[k].name \in ToSet(Truncated(s))
  BY <1>1, <1>2, TruncatedNames
<1>5. /\ Listed(Truncated(s)) \in NameLists /\ Listed(Truncated(s)) # <<>>
      /\ ToSet(Truncated(s)) \subseteq ToSet(Listed(Truncated(s)))
      /\ {"inventory", "gems", "progression", "objectives"} \subseteq ToSet(Listed(Truncated(s)))
  BY <1>4, PrunedNames
<1>6. /\ doc.missing = Missing(s)
      /\ \/ doc.truncated = Truncated(s) /\ doc.partial = (doc.missing # <<>> \/ doc.truncated # <<>>)
         \/ doc.truncated = Listed(Truncated(s)) /\ doc.partial = TRUE
  BY Captured DEF s
<1> HIDE DEF doc
<1>7. CASE doc.truncated = Truncated(s) /\ doc.partial = (doc.missing # <<>> \/ doc.truncated # <<>>)
  BY <1>3, <1>4, <1>5, <1>6, <1>7 DEF n, doc, s
<1>8. CASE doc.truncated = Listed(Truncated(s)) /\ doc.partial = TRUE
  BY <1>3, <1>4, <1>5, <1>6, <1>8 DEF n, doc, s
<1> QED BY <1>6, <1>7, <1>8

---------------------------------------------------------------------------
(***************************************************************************)
(* Cutting a list, and putting it in order                                 *)
(***************************************************************************)
\* A list that is not longer than the limit is read as a whole.
LEMMA CutNothing ==
    ASSUME NEW S, NEW s \in Seq(S), NEW n \in Nat, ~(Len(s) > n)
    PROVE  Cut(s, n) = s
<1>1. SubSeq(s, 1, Len(s)) = s
  OBVIOUS
<1> QED BY <1>1 DEF Cut

\* What is read of a list.
LEMMA CutPart ==
    ASSUME NEW S, NEW s \in Seq(S), NEW n \in Nat
    PROVE  /\ Cut(s, n) \in Seq(S) /\ Len(Cut(s, n)) <= n /\ Len(Cut(s, n)) <= Len(s)
           /\ ToSet(Cut(s, n)) \subseteq ToSet(s)
<1> DEFINE k == IF Len(s) > n THEN n ELSE Len(s)
           t == SubSeq(s, 1, k)
<1>1. k \in Nat /\ k <= n /\ k <= Len(s)
  OBVIOUS
<1>2. Cut(s, n) = t
  BY DEF Cut
<1> HIDE DEF k, t
<1>3. t \in Seq(S) /\ Len(t) = k /\ \A i \in 1 .. k : t[i] = s[i]
  BY <1>1, FirstPart DEF t
<1>4. DOMAIN t = 1 .. k /\ DOMAIN s = 1 .. Len(s) /\ Len(s) \in Nat
  BY <1>3
<1>5. \A i \in 1 .. k : i \in 1 .. Len(s)
  BY <1>1, <1>4
<1>6. ToSet(t) \subseteq ToSet(s)
  BY <1>3, <1>4, <1>5 DEF ToSet
<1> QED BY <1>1, <1>2, <1>3, <1>6

\* The elements of a list.
LEMMA RangeOf ==
    ASSUME NEW S, NEW s \in Seq(S)
    PROVE  /\ ToSet(s) \subseteq S /\ s \in Seq(ToSet(s)) /\ Len(s) \in Nat
           /\ DOMAIN s = 1 .. Len(s) /\ ToSet(s) = {s[i] : i \in 1 .. Len(s)}
<1>1. DOMAIN s = 1 .. Len(s) /\ Len(s) \in Nat /\ \A i \in 1 .. Len(s) : s[i] \in S
  OBVIOUS
<1>2. ToSet(s) = {s[i] : i \in 1 .. Len(s)}
  BY <1>1 DEF ToSet
<1>3. \A i \in 1 .. Len(s) : s[i] \in ToSet(s)
  BY <1>2
<1>4. s = [i \in 1 .. Len(s) |-> s[i]]
  OBVIOUS
<1>5. s \in Seq(ToSet(s))
  BY <1>1, <1>3, <1>4
<1> QED BY <1>1, <1>2, <1>5

---------------------------------------------------------------------------
\* A relation that puts the elements of a set in an order.
Orders(r, S) ==
    /\ \A x \in S : <<x, x>> \notin r
    /\ \A x, y \in S : x # y => <<x, y>> \in r \/ <<y, x>> \in r
    /\ \A x, y, z \in S : <<x, y>> \in r /\ <<y, z>> \in r => <<x, z>> \in r

Ranked(S, r) ==
    [k \in 1 .. Cardinality(S) |->
        CHOOSE x \in S : Cardinality({y \in S : <<y, x>> \in r}) = k - 1]

\* A set in such an order is a list that has every element once.
LEMMA RankedRange ==
    ASSUME NEW S, IsFiniteSet(S), NEW r, Orders(r, S)
    PROVE  /\ Ranked(S, r) \in Seq(S) /\ Len(Ranked(S, r)) = Cardinality(S)
           /\ ToSet(Ranked(S, r)) = S
           /\ \A i, j \in 1 .. Cardinality(S) : Ranked(S, r)[i] = Ranked(S, r)[j] => i = j
           /\ \A k \in 1 .. Cardinality(S) :
                Cardinality({y \in S : <<y, Ranked(S, r)[k]>> \in r}) = k - 1
<1> DEFINE n == Cardinality(S)
           down(x) == {y \in S : <<y, x>> \in r}
           rank == [x \in S |-> Cardinality(down(x))]
           list == Ranked(S, r)
<1>1. n \in Nat
  BY FS_CardinalityType
<1>2. ASSUME NEW x \in S PROVE IsFiniteSet(down(x)) /\ Cardinality(down(x)) \in Nat
  BY FS_Subset, FS_CardinalityType
<1>3. ASSUME NEW x \in S PROVE Cardinality(down(x)) \in 0 .. n - 1
  <2>1. down(x) \in SUBSET (S \ {x})
    BY DEF Orders
  <2>2. IsFiniteSet(S \ {x}) /\ Cardinality(S \ {x}) = n - 1
    BY FS_RemoveElement
  <2>3. Cardinality(down(x)) <= n - 1
    <3> DEFINE A == S \ {x}
               D == down(x)
    <3>1. IsFiniteSet(A) /\ D \in SUBSET A
      BY <2>1, <2>2
    <3> HIDE DEF A, D
    <3>2. Cardinality(D) <= Cardinality(A)
      BY <3>1, FS_Subset
    <3> QED BY <2>2, <3>2 DEF A, D
  <2>4. Cardinality(down(x)) \in Nat
    BY <1>2
  <2> HIDE DEF down, n
  <2> QED BY <1>1, <2>3, <2>4
<1>4. ASSUME NEW x \in S, NEW y \in S, <<x, y>> \in r
      PROVE  Cardinality(down(x)) < Cardinality(down(y))
  <2>1. x \notin down(x) /\ down(x) \cup {x} \in SUBSET down(y)
    BY <1>4 DEF Orders
  <2>2. IsFiniteSet(down(x)) /\ IsFiniteSet(down(y)) /\ Cardinality(down(x)) \in Nat
        /\ Cardinality(down(y)) \in Nat
    BY <1>2
  <2> DEFINE dx == down(x)
             dy == down(y)
  <2>3. x \notin dx /\ dx \cup {x} \in SUBSET dy /\ IsFiniteSet(dx) /\ IsFiniteSet(dy)
        /\ Cardinality(dx) \in Nat /\ Cardinality(dy) \in Nat
    BY <2>1, <2>2
  <2> HIDE DEF dx, dy
  <2>4. Cardinality(dx \cup {x}) = Cardinality(dx) + 1
    BY <2>3, FS_AddElement
  <2>5. Cardinality(dx \cup {x}) <= Cardinality(dy)
    BY <2>3, FS_Subset
  <2>6. Cardinality(dx) < Cardinality(dy)
    BY <2>3, <2>4, <2>5
  <2> QED BY <2>6 DEF dx, dy
<1>5. \A x, y \in S : Cardinality(down(x)) = Cardinality(down(y)) => x = y
  <2> SUFFICES ASSUME NEW x \in S, NEW y \in S, x # y
               PROVE  Cardinality(down(x)) # Cardinality(down(y))
    OBVIOUS
  <2>1. <<x, y>> \in r \/ <<y, x>> \in r
    BY DEF Orders
  <2>2. Cardinality(down(x)) < Cardinality(down(y)) \/ Cardinality(down(y)) < Cardinality(down(x))
    BY <1>4, <2>1
  <2>3. Cardinality(down(x)) \in Nat /\ Cardinality(down(y)) \in Nat
    BY <1>2
  <2> HIDE DEF down
  <2> QED BY <2>2, <2>3
<1>6. rank \in Injection(S, 0 .. n - 1)
  BY <1>3, <1>5 DEF Injection, IsInjective
<1>7. IsFiniteSet(0 .. n - 1) /\ Cardinality(0 .. n - 1) = n
  <2> HIDE DEF n
  <2>1. n - 1 \in Int /\ 0 \in Int
    BY <1>1
  <2>2. (IF 0 > n - 1 THEN 0 ELSE n - 1 - 0 + 1) = n
    BY <1>1
  <2> QED BY <2>1, <2>2, FS_Interval
<1>8. rank \in Surjection(S, 0 .. n - 1)
  BY <1>6, <1>7, FS_Injection
<1>9. ASSUME NEW k \in 1 .. n PROVE \E x \in S : Cardinality(down(x)) = k - 1
  <2>1. k - 1 \in 0 .. n - 1
    BY <1>1
  <2> QED BY <1>8, <2>1 DEF Surjection
<1>10. DOMAIN list = 1 .. n /\ \A k \in 1 .. n :
            list[k] = CHOOSE x \in S : Cardinality(down(x)) = k - 1
  BY DEF Ranked
<1>11. ASSUME NEW k \in 1 .. n PROVE list[k] \in S /\ Cardinality(down(list[k])) = k - 1
  <2> HIDE DEF down, list, n
  <2> QED BY <1>9, <1>10
<1>12. list \in Seq(S) /\ Len(list) = n
  <2>1. list = [k \in 1 .. n |-> list[k]]
    <3> DEFINE pick(k) == CHOOSE x \in S : Cardinality(down(x)) = k - 1
    <3>1. list = [k \in 1 .. n |-> pick(k)]
      BY DEF Ranked
    <3> HIDE DEF pick, list, n
    <3> QED BY <3>1
  <2> HIDE DEF list, n, down
  <2> QED BY <1>1, <1>10, <1>11, <2>1
<1>13. \A x \in S : \E k \in 1 .. n : list[k] = x
  <2> SUFFICES ASSUME NEW x \in S PROVE \E k \in 1 .. n : list[k] = x
    OBVIOUS
  <2> DEFINE k == Cardinality(down(x)) + 1
  <2>1. k \in 1 .. n /\ k - 1 = Cardinality(down(x))
    <3>1. Cardinality(down(x)) \in 0 .. n - 1
      BY <1>3
    <3> HIDE DEF down, n
    <3> QED BY <1>1, <3>1
  <2> HIDE DEF k
  <2>2. list[k] \in S /\ Cardinality(down(list[k])) = Cardinality(down(x))
    BY <1>11, <2>1
  <2>3. list[k] = x
    <3> HIDE DEF list, down
    <3> QED BY <1>5, <2>2
  <2> QED BY <2>1, <2>3
<1>14. ToSet(list) = S
  <2> HIDE DEF list
  <2> QED BY <1>10, <1>11, <1>13 DEF ToSet
<1>15. ASSUME NEW i \in 1 .. n, NEW j \in 1 .. n, list[i] = list[j] PROVE i = j
  <2>1. i - 1 = j - 1
    BY <1>11, <1>15
  <2> QED BY <1>1, <2>1
<1> QED BY <1>11, <1>12, <1>14, <1>15

\* A list of some tokens is a list of more tokens.
LEMMA WiderSeq == ASSUME NEW A, NEW B, A \subseteq B PROVE Seq(A) \subseteq Seq(B)
<1> SUFFICES ASSUME NEW s \in Seq(A) PROVE s \in Seq(B)
  OBVIOUS
<1>1. Len(s) \in Nat /\ s \in [1 .. Len(s) -> A]
  OBVIOUS
<1>2. s \in [1 .. Len(s) -> B]
  BY <1>1
<1> QED BY <1>1, <1>2

\* A byte is a number.
LEMMA ByteNumber == \A c \in Byte : c \in Int
BY DEF Byte

\* The order of names, byte by byte.
LEMMA BeforeAt ==
    ASSUME NEW a \in Seq(Byte), NEW b \in Seq(Byte)
    PROVE  Before(a, b) <=>
            \E n \in 0 .. Len(a) :
                /\ n < Len(b) /\ \A i \in 1 .. n : a[i] = b[i]
                /\ n = Len(a) \/ a[n + 1] < b[n + 1]
<1>1. ASSUME NEW n \in 0 .. Len(a), n < Len(b)
      PROVE  SubSeq(a, 1, n) = SubSeq(b, 1, n) <=> \A i \in 1 .. n : a[i] = b[i]
  <2> DEFINE s == SubSeq(a, 1, n)
             t == SubSeq(b, 1, n)
  <2>1. n \in Nat /\ n <= Len(a) /\ n <= Len(b)
    BY <1>1
  <2>2. s \in Seq(Byte) /\ Len(s) = n /\ \A i \in 1 .. n : s[i] = a[i]
    BY <2>1, FirstPart
  <2>3. t \in Seq(Byte) /\ Len(t) = n /\ \A i \in 1 .. n : t[i] = b[i]
    BY <2>1, FirstPart
  <2> HIDE DEF s, t
  <2>4. s = [i \in 1 .. n |-> s[i]] /\ t = [i \in 1 .. n |-> t[i]]
    BY <2>2, <2>3
  <2>5. s = t <=> \A i \in 1 .. n : a[i] = b[i]
    BY <2>2, <2>3, <2>4
  <2> QED BY <2>5 DEF s, t
<1> QED BY <1>1 DEF Before

\* It puts any names in an order.
LEMMA BeforeOrders ==
    ASSUME NEW S \in SUBSET Seq(Byte)
    PROVE  Orders({p \in S \X S : Before(p[1], p[2])}, S)
<1> DEFINE r == {p \in S \X S : Before(p[1], p[2])}
<1>0. \A x, y \in S : <<x, y>> \in r <=> Before(x, y)
  OBVIOUS
<1>1. ASSUME NEW x \in S PROVE ~Before(x, x)
  <2> SUFFICES ASSUME NEW n \in 0 .. Len(x), n < Len(x), n = Len(x) \/ x[n + 1] < x[n + 1]
               PROVE  FALSE
    BY BeforeAt
  <2>1. x \in Seq(Byte) /\ Len(x) \in Nat /\ n + 1 \in 1 .. Len(x)
    OBVIOUS
  <2>2. x[n + 1] \in Byte
    BY <2>1
  <2>3. x[n + 1] \in Int
    BY <2>2, ByteNumber
  <2> QED BY <2>1, <2>3
<1>2. ASSUME NEW x \in S, NEW y \in S, x # y PROVE Before(x, y) \/ Before(y, x)
  <2> DEFINE D == {i \in Nat : i >= 1 /\ i <= Len(x) /\ i <= Len(y) /\ x[i] # y[i]}
             l == Len(x)
             m == Len(y)
  <2>1. x \in Seq(Byte) /\ y \in Seq(Byte) /\ l \in Nat /\ m \in Nat
    OBVIOUS
  <2>2. CASE D # {}
    <3>1. PICK i \in D : \A j \in D : i <= j
      <4>1. D \in SUBSET Nat
        OBVIOUS
      <4> HIDE DEF D
      <4> QED BY <2>2, <4>1, MinExists
    <3>2. /\ i \in Nat /\ i >= 1 /\ i <= l /\ i <= m /\ x[i] # y[i]
      OBVIOUS
    <3>3. \A j \in 1 .. i - 1 : x[j] = y[j]
      <4> SUFFICES ASSUME NEW j \in 1 .. i - 1, x[j] # y[j] PROVE FALSE
        OBVIOUS
      <4>1. j \in Nat /\ j >= 1 /\ j <= Len(x) /\ j <= Len(y) /\ ~(i <= j)
        BY <2>1, <3>2
      <4>2. j \in D
        BY <4>1
      <4> QED BY <3>1, <4>1, <4>2
    <3>4. x[i] \in Byte /\ y[i] \in Byte
      BY <2>1, <3>2
    <3>5. x[i] < y[i] \/ y[i] < x[i]
      <4> DEFINE c == x[i]
                 d == y[i]
      <4>1. c \in Int /\ d \in Int
        BY <3>4, ByteNumber
      <4>2. c # d
        BY <3>2
      <4> HIDE DEF c, d
      <4>3. c < d \/ d < c
        BY <4>1, <4>2
      <4> QED BY <4>3 DEF c, d
    <3> DEFINE n == i - 1
    <3>6. n \in 0 .. l /\ n \in 0 .. m /\ n < l /\ n < m /\ n + 1 = i
      BY <2>1, <3>2
    <3>7. \A j \in 1 .. n : x[j] = y[j]
      BY <3>3
    <3>8. x[n + 1] < y[n + 1] \/ y[n + 1] < x[n + 1]
      BY <3>5, <3>6
    <3> HIDE DEF n, D
    <3>9. x[n + 1] < y[n + 1] => Before(x, y)
      BY <2>1, <3>6, <3>7, BeforeAt
    <3>10. y[n + 1] < x[n + 1] => Before(y, x)
      BY <2>1, <3>6, <3>7, BeforeAt
    <3> QED BY <3>8, <3>9, <3>10
  <2>3. CASE D = {}
    <3>1. \A i \in Nat : i >= 1 /\ i <= l /\ i <= m => x[i] = y[i]
      BY <2>3
    <3>2. l # m
      <4> SUFFICES ASSUME l = m PROVE x = y
        BY <1>2
      <4>1. x = [i \in 1 .. l |-> x[i]] /\ y = [i \in 1 .. m |-> y[i]]
        BY <2>1
      <4>2. \A i \in 1 .. l : x[i] = y[i]
        BY <2>1, <3>1
      <4> HIDE DEF l, m
      <4> QED BY <4>1, <4>2
    <3>3. l < m => Before(x, y)
      <4> SUFFICES ASSUME l < m PROVE Before(x, y)
        OBVIOUS
      <4>1. l \in 0 .. l /\ \A i \in 1 .. l : x[i] = y[i]
        BY <2>1, <3>1
      <4> QED BY <2>1, <4>1, BeforeAt
    <3>4. m < l => Before(y, x)
      <4> SUFFICES ASSUME m < l PROVE Before(y, x)
        OBVIOUS
      <4>1. m \in 0 .. m /\ \A i \in 1 .. m : y[i] = x[i]
        BY <2>1, <3>1
      <4> QED BY <2>1, <4>1, BeforeAt
    <3>5. l < m \/ m < l
      BY <2>1, <3>2
    <3> QED BY <3>3, <3>4, <3>5
  <2> QED BY <2>2, <2>3
<1>3. ASSUME NEW x \in S, NEW y \in S, NEW z \in S, Before(x, y), Before(y, z)
      PROVE  Before(x, z)
  <2>1. x \in Seq(Byte) /\ y \in Seq(Byte) /\ z \in Seq(Byte)
        /\ Len(x) \in Nat /\ Len(y) \in Nat /\ Len(z) \in Nat
    OBVIOUS
  <2>2. PICK m \in 0 .. Len(x) :
            /\ m < Len(y) /\ \A i \in 1 .. m : x[i] = y[i]
            /\ m = Len(x) \/ x[m + 1] < y[m + 1]
    BY <1>3, <2>1, BeforeAt
  <2>3. PICK n \in 0 .. Len(y) :
            /\ n < Len(z) /\ \A i \in 1 .. n : y[i] = z[i]
            /\ n = Len(y) \/ y[n + 1] < z[n + 1]
    BY <1>3, <2>1, BeforeAt
  <2>4. CASE m < n
    <3>1. m + 1 \in 1 .. n /\ m < Len(z) /\ \A i \in 1 .. m : i \in 1 .. n
      BY <2>1, <2>2, <2>3, <2>4
    <3>2. y[m + 1] = z[m + 1] /\ \A i \in 1 .. m : x[i] = z[i]
      BY <2>2, <2>3, <3>1
    <3>3. m = Len(x) \/ x[m + 1] < z[m + 1]
      BY <2>2, <3>2
    <3> QED BY <2>1, <3>1, <3>2, <3>3, BeforeAt
  <2>5. CASE m = n
    <3>1. \A i \in 1 .. m : x[i] = z[i]
      BY <2>2, <2>3, <2>5
    <3>2. m < Len(z) /\ y[m + 1] < z[m + 1]
      BY <2>1, <2>2, <2>3, <2>5
    <3>3. m = Len(x) \/ x[m + 1] < z[m + 1]
      <4> SUFFICES ASSUME m # Len(x) PROVE x[m + 1] < z[m + 1]
        OBVIOUS
      <4>1. m + 1 \in 1 .. Len(x) /\ m + 1 \in 1 .. Len(y) /\ m + 1 \in 1 .. Len(z)
        BY <2>1, <2>2, <3>2
      <4>2. x[m + 1] \in Byte /\ y[m + 1] \in Byte /\ z[m + 1] \in Byte
        BY <2>1, <4>1
      <4>3. x[m + 1] \in Int /\ y[m + 1] \in Int /\ z[m + 1] \in Int
        BY <4>2, ByteNumber
      <4>4. x[m + 1] < y[m + 1]
        BY <2>2
      <4> QED BY <3>2, <4>3, <4>4
    <3> QED BY <2>1, <3>1, <3>2, <3>3, BeforeAt
  <2>6. CASE n < m
    <3>1. n + 1 \in 1 .. m /\ n \in 0 .. Len(x) /\ n # Len(y) /\ \A i \in 1 .. n : i \in 1 .. m
      BY <2>1, <2>2, <2>3, <2>6
    <3>2. x[n + 1] = y[n + 1] /\ \A i \in 1 .. n : x[i] = z[i]
      BY <2>2, <2>3, <3>1
    <3>3. x[n + 1] < z[n + 1]
      BY <2>3, <3>1, <3>2
    <3> QED BY <2>1, <2>3, <3>1, <3>2, <3>3, BeforeAt
  <2>7. m \in Int /\ n \in Int
    BY <2>1
  <2> QED BY <2>4, <2>5, <2>6, <2>7
<1> HIDE DEF r
<1>4. Orders(r, S)
  BY <1>0, <1>1, <1>2, <1>3 DEF Orders
<1> QED BY <1>4 DEF r

---------------------------------------------------------------------------
(***************************************************************************)
(* Inventory and gems                                                      *)
(***************************************************************************)
\* The first name that is not empty is one of them.
LEMMA FirstNonEmptyOf ==
    ASSUME NEW S, <<>> \in S, NEW names \in Seq(S)
    PROVE  FirstNonEmpty(names) \in S
<1> DEFINE I == {i \in 1 .. Len(names) : names[i] # <<>>}
           n == SelectInSeq(names, LAMBDA name : name # <<>>)
<1>1. n = IF I # {} THEN Min(I) ELSE 0
  BY DEF SelectInSeq
<1>2. n # 0 => n \in I
  <2>1. I \in SUBSET Nat
    OBVIOUS
  <2> HIDE DEF I
  <2> QED BY <1>1, <2>1, MinExists
<1>3. n \in I => names[n] \in S
  OBVIOUS
<1>4. FirstNonEmpty(names) = IF n = 0 THEN <<>> ELSE names[n]
  BY DEF FirstNonEmpty
<1> QED BY <1>2, <1>3, <1>4

\* The name of an item is a text.
LEMMA ItemNameText ==
    ASSUME NEW i, Utf8(i.unique), Utf8(i.name), IsText(i.display)
    PROVE  ItemName(i) \in Seq(Byte)
<1> DEFINE S == Seq(Byte)
           a == SafeText(i.display)
           b == TruncateUtf8(i.unique, MaxStringBytes)
           c == TruncateUtf8(i.name, MaxStringBytes)
<1>1. a \in S
  BY ShownText DEF IsText
<1>2. b \in S /\ c \in S
  BY SectionsAssumption, TruncatedText
<1>3. ItemName(i) = FirstNonEmpty(<<a, b, c>>)
  BY DEF ItemName
<1>4. <<>> \in S
  OBVIOUS
<1> HIDE DEF S, a, b, c
<1>5. <<a, b, c>> \in Seq(S)
  BY <1>1, <1>2
<1>6. FirstNonEmpty(<<a, b, c>>) \in S
  BY <1>4, <1>5, FirstNonEmptyOf
<1> QED BY <1>3, <1>6 DEF S

\* What is read of a store; all of it if it is not longer than the limit.
LEMMA StoreRead ==
    ASSUME NEW inventory, NEW store, inventory # Null, store # Null, IsBag(inventory, store)
    PROVE  LET read == ReadStore(store) IN
           /\ read \in Seq(DOMAIN inventory.held)
           /\ ~(Len(store) > MaxInventorySlots) => ToSet(read) = ToSet(store) \ {Null}
<1> DEFINE items == DOMAIN inventory.held
           all == items \cup {Null}
           some == Cut(store, MaxInventorySlots)
<1>1. store \in Seq(all) /\ Null \notin items
  BY DEF IsBag
<1> HIDE DEF items
<1>2. MaxInventorySlots \in Nat
  BY SectionsAssumption
<1>3. some \in Seq(all) /\ (~(Len(store) > MaxInventorySlots) => some = store)
  BY <1>1, <1>2, CutNothing, CutPart
<1>4. ReadStore(store) = Selected(some, items)
  <2>1. ReadStore(store) = Keep(some, LAMBDA i : i # Null)
    BY DEF ReadStore
  <2> HIDE DEF some
  <2>2. Len(some) \in Nat /\ DOMAIN some = 1 .. Len(some) /\ \A n \in DOMAIN some : some[n] \in all
    BY <1>3
  <2>3. \A n \in DOMAIN some : some[n] # Null <=> some[n] \in items
    BY <1>1, <2>2
  <2> DEFINE f == [n \in DOMAIN some |-> IF some[n] # Null THEN <<some[n]>> ELSE <<>>]
             g == [n \in DOMAIN some |-> IF some[n] \in items THEN <<some[n]>> ELSE <<>>]
  <2>4. f = g
    BY <2>3
  <2>5. ReadStore(store) = FlattenSeq(f)
    BY <2>1 DEF Keep
  <2>6. Selected(some, items) = FlattenSeq(g)
    BY DEF Selected
  <2> QED BY <2>4, <2>5, <2>6
<1> DEFINE read == Selected(some, items)
<1> HIDE DEF some
<1>5. read \in Seq(all) /\ ToSet(read) = ToSet(some) \cap items
  BY <1>3, SelectedRange
<1>6. ToSet(store) \subseteq all
  BY <1>1, RangeOf
<1> HIDE DEF read
<1>7. /\ ToSet(read) \subseteq items
      /\ ~(Len(store) > MaxInventorySlots) => ToSet(read) = ToSet(store) \ {Null}
  BY <1>1, <1>3, <1>5, <1>6
<1>8. read \in Seq(ToSet(read))
  BY <1>5, RangeOf
<1>9. read \in Seq(items)
  BY <1>7, <1>8, WiderSeq
<1> QED BY <1>4, <1>7, <1>9 DEF read, items

\* The first entry of an item type that the player holds is counted.
LEMMA HeldIsCounted ==
    ASSUME NEW inventory, NEW store, inventory # Null, store # Null,
           IsBag(inventory, store), NEW read \in Seq(DOMAIN inventory.held),
           NEW i \in ToSet(read), inventory.held[i] > 0, ItemName(i) # <<>>
    PROVE  \E n \in Counted(inventory, read) : read[n] = i
<1> DEFINE items == DOMAIN inventory.held
           D == {n \in 1 .. Len(read) : read[n] = i}
<1>1. DOMAIN read = 1 .. Len(read) /\ ToSet(read) \subseteq items /\ Len(read) \in Nat
      /\ ToSet(read) = {read[n] : n \in 1 .. Len(read)}
  BY RangeOf
<1>2. D # {} /\ D \in SUBSET Nat
  BY <1>1
<1>3. PICK n \in D : \A m \in D : n <= m
  <2> HIDE DEF D
  <2> QED BY <1>2, MinExists
<1>4. n \in 1 .. Len(read) /\ read[n] = i
  OBVIOUS
<1>5. ASSUME NEW m \in 1 .. n - 1 PROVE ItemIdentity(read[m]) # ItemIdentity(read[n])
  <2>1. m \in 1 .. Len(read) /\ ~(n <= m)
    BY <1>1, <1>4
  <2>2. m \notin D
    BY <1>3, <2>1
  <2>3. read[m] # i /\ read[m] \in items
    BY <1>1, <2>1, <2>2
  <2>4. i \in items
    BY <1>1
  <2> HIDE DEF items, D
  <2>5. ItemIdentity(read[m]) = ItemIdentity(i) => read[m] = i
    BY <2>3, <2>4 DEF IsBag, items
  <2> QED BY <1>4, <2>3, <2>5
<1>6. ItemIdentity(i) # <<>>
  BY <1>1 DEF IsBag
<1>7. n \in FirstOfType(read)
  <2> HIDE DEF D
  <2> QED BY <1>1, <1>4, <1>5, <1>6 DEF FirstOfType
<1>8. n \in Counted(inventory, read)
  BY <1>4, <1>7 DEF Counted
<1> QED BY <1>4, <1>8

\* The names of the counted items are a list that has every name once.
LEMMA NamesListed ==
    ASSUME NEW inventory, NEW store, inventory # Null, store # Null,
           IsBag(inventory, store), NEW read \in Seq(DOMAIN inventory.held)
    PROVE  LET S == {ItemName(read[n]) : n \in Counted(inventory, read)}
               names == ItemNames(inventory, read)
           IN /\ S \in SUBSET Seq(Byte) /\ IsFiniteSet(S)
              /\ names \in Seq(S) /\ ToSet(names) = S
<1> DEFINE items == DOMAIN inventory.held
           C == Counted(inventory, read)
           S == {ItemName(read[n]) : n \in C}
           r == {p \in S \X S : Before(p[1], p[2])}
<1>1. C \in SUBSET (1 .. Len(read)) /\ Len(read) \in Nat /\ \A n \in 1 .. Len(read) : read[n] \in items
  BY DEF Counted, FirstOfType
<1>2. \A n \in C : ItemName(read[n]) \in Seq(Byte)
  <2>1. \A n \in C : read[n] \in items
    BY <1>1
  <2>2. \A i \in items : Utf8(i.unique) /\ Utf8(i.name) /\ IsText(i.display)
    BY DEF IsBag
  <2> HIDE DEF items, C
  <2> QED BY <2>1, <2>2, ItemNameText
<1> HIDE DEF C
<1>3. S \in SUBSET Seq(Byte)
  BY <1>2
<1>4. IsFiniteSet(C)
  <2>1. IsFiniteSet(1 .. Len(read))
    <3> DEFINE n == Len(read)
    <3>1. n \in Int /\ 1 \in Int
      BY <1>1
    <3> HIDE DEF n
    <3>2. IsFiniteSet(1 .. n)
      BY <3>1, FS_Interval
    <3> QED BY <3>2 DEF n
  <2> QED BY <1>1, <2>1, FS_Subset
<1>5. IsFiniteSet(S)
  <2> DEFINE f == [n \in C |-> ItemName(read[n])]
  <2>1. f \in Surjection(C, S)
    BY DEF Surjection
  <2> HIDE DEF f, S
  <2> QED BY <1>4, <2>1, FS_Surjection
<1> HIDE DEF S
<1>6. Orders(r, S)
  BY <1>3, BeforeOrders
<1>7. InOrder(S, Before) = Ranked(S, r)
  <2>1. \A x, y \in S : <<x, y>> \in r <=> Before(x, y)
    OBVIOUS
  <2>2. \A x \in S : {y \in S : Before(y, x)} = {y \in S : <<y, x>> \in r}
    BY <2>1
  <2> HIDE DEF r
  <2> DEFINE f(k) == CHOOSE x \in S : Cardinality({y \in S : Before(y, x)}) = k - 1
             g(k) == CHOOSE x \in S : Cardinality({y \in S : <<y, x>> \in r}) = k - 1
  <2>3. InOrder(S, Before) = [k \in 1 .. Cardinality(S) |-> f(k)]
    BY DEF InOrder
  <2>4. Ranked(S, r) = [k \in 1 .. Cardinality(S) |-> g(k)]
    BY DEF Ranked
  <2>5. \A k \in 1 .. Cardinality(S) : f(k) = g(k)
    BY <2>2
  <2> HIDE DEF f, g
  <2> QED BY <2>3, <2>4, <2>5
<1> DEFINE list == Ranked(S, r)
<1>8. list \in Seq(S) /\ ToSet(list) = S
  BY <1>5, <1>6, RankedRange
<1>9. ItemNames(inventory, read) = list
  BY <1>7 DEF ItemNames, S, C
<1> HIDE DEF list
<1> QED BY <1>3, <1>5, <1>8, <1>9 DEF S, C

\* A bag that is not cut shows every item the player holds.
LEMMA BagComplete ==
    ASSUME NEW inventory, NEW store, IsBag(inventory, store),
           BuildItemContainer(inventory, store).available,
           ~BuildItemContainer(inventory, store).truncated
    PROVE  \A i \in Holds(inventory, store) :
                ItemName(i) \in Named(BuildItemContainer(inventory, store).items)
<1> SUFFICES ASSUME NEW i \in Holds(inventory, store)
             PROVE  ItemName(i) \in Named(BuildItemContainer(inventory, store).items)
  OBVIOUS
<1> DEFINE b == BuildItemContainer(inventory, store)
           read == ReadStore(store)
           names == ItemNames(inventory, read)
           S == {ItemName(read[n]) : n \in Counted(inventory, read)}
<1>1. inventory # Null /\ store # Null
  BY DEF BuildItemContainer, Unavailable
<1>2. i \in ToSet(store) \ {Null} /\ inventory.held[i] > 0 /\ ItemName(i) # <<>>
  BY <1>1 DEF Holds
<1>3. /\ b.truncated = (\/ Len(inventory.slots) > MaxInventorySlots
                        \/ Len(store) > MaxInventorySlots
                        \/ Len(names) > MaxInventoryItems)
      /\ b.items = [k \in DOMAIN Cut(names, MaxInventoryItems) |->
                    [name |-> names[k], amount |-> ItemAmount(inventory, read, names[k])]]
  BY <1>1 DEF BuildItemContainer
<1>4. ~(Len(store) > MaxInventorySlots) /\ ~(Len(names) > MaxInventoryItems)
  BY <1>3
<1>5. read \in Seq(DOMAIN inventory.held) /\ ToSet(read) = ToSet(store) \ {Null}
  BY <1>1, <1>4, StoreRead
<1> HIDE DEF b, read
<1>6. PICK n \in Counted(inventory, read) : read[n] = i
  BY <1>1, <1>2, <1>5, HeldIsCounted
<1>7. ItemName(i) \in S
  BY <1>6
<1>8. names \in Seq(S) /\ ToSet(names) = S
  BY <1>1, <1>5, NamesListed
<1> HIDE DEF S, names
<1>9. MaxInventoryItems \in Nat
  BY SectionsAssumption
<1>10. Cut(names, MaxInventoryItems) = names
  BY <1>4, <1>8, <1>9, CutNothing
<1>11. PICK k \in DOMAIN names : names[k] = ItemName(i)
  BY <1>7, <1>8 DEF ToSet
<1>12. k \in DOMAIN b.items /\ b.items[k].name = names[k]
  BY <1>3, <1>10
<1>13. ItemName(i) \in Named(b.items)
  BY <1>11, <1>12 DEF Named
<1> QED BY <1>13 DEF b

\* The other players of a game are a part of its players.
LEMMA OthersAre ==
    ASSUME NEW players, IsArray(players), NEW local
    PROVE  Others(players, local) \in Seq(ToSet(players))
<1> DEFINE T == {p \in ToSet(players) : p.character \notin {Null, local}}
           S == ToSet(players)
           f == [n \in DOMAIN players |-> IF players[n].character \notin {Null, local}
                                          THEN <<players[n]>> ELSE <<>>]
           g == [n \in DOMAIN players |-> IF players[n] \in T THEN <<players[n]>> ELSE <<>>]
<1>1. \A n \in DOMAIN players : players[n] \in ToSet(players)
  BY DEF ToSet
<1>2. f = g
  BY <1>1
<1>3. Others(players, local) = FlattenSeq(f)
  BY DEF Others, Keep
<1>4. Selected(players, T) = FlattenSeq(g)
  BY DEF Selected
<1>5. players \in Seq(S)
  BY DEF IsArray
<1> HIDE DEF T, S
<1>6. Selected(players, T) \in Seq(S)
  BY <1>5, SelectedRange
<1> QED BY <1>2, <1>3, <1>4, <1>6 DEF S

\* A session that is not cut shows every other player.
LEMMA SessionComplete ==
    ASSUME NEW game, game # Null, IsArray(game.players), NEW local,
           ~BuildSession(game, local).truncated
    PROVE  Len(BuildSession(game, local).closest) = Len(Others(game.players, local))
<1> DEFINE players == game.players
           S == ToSet(players)
           others == Others(players, local)
           b == BuildSession(game, local)
           before(p, q) == p.distance < q.distance
           sorted == Sorted(others, before)
<1>1. MaxPlayers \in Nat /\ MaxReplicatedPlayers \in Nat
  BY SectionsAssumption
<1>2. /\ b.truncated = (\/ Len(players) > MaxPlayers
                        \/ Len(Others(Cut(players, MaxPlayers), local)) > MaxReplicatedPlayers)
      /\ b.closest = Closest(Cut(players, MaxPlayers), local)
  BY DEF BuildSession
<1>3. players \in Seq(S) /\ others \in Seq(S)
  BY OthersAre DEF IsArray
<1> HIDE DEF S, b
<1>4. ~(Len(players) > MaxPlayers)
  BY <1>2 DEF b
<1>5. Cut(players, MaxPlayers) = players
  BY <1>1, <1>3, <1>4, CutNothing
<1>6. ~(Len(others) > MaxReplicatedPlayers)
  BY <1>2, <1>5 DEF b
<1>7. b.closest = Cut(sorted, MaxReplicatedPlayers)
  BY <1>2, <1>5 DEF Closest
<1> HIDE DEF others, players
<1> DEFINE n == Len(others)
           place(k) == InOrder(DOMAIN others, LAMBDA i, j :
                \/ before(others[i], others[j])
                \/ ~before(others[j], others[i]) /\ i < j)[k]
<1>8. sorted = [k \in DOMAIN others |-> others[place(k)]]
  BY DEF Sorted
<1>9. DOMAIN others = 1 .. n /\ n \in Nat
  BY <1>3
<1> HIDE DEF place, sorted, n
<1> DEFINE V == {others[place(k)] : k \in 1 .. n}
<1>10. sorted \in Seq(V) /\ Len(sorted) = n
  <2>1. \A k \in 1 .. n : others[place(k)] \in V
    OBVIOUS
  <2> DEFINE e(k) == others[place(k)]
  <2>2. sorted = [k \in 1 .. n |-> e(k)]
    BY <1>8, <1>9
  <2> HIDE DEF e, V
  <2>3. \A k \in 1 .. n : e(k) \in V
    BY <2>1 DEF e
  <2> QED BY <1>9, <2>2, <2>3
<1> HIDE DEF V
<1>11. ~(Len(sorted) > MaxReplicatedPlayers)
  BY <1>6, <1>10 DEF n
<1>12. Cut(sorted, MaxReplicatedPlayers) = sorted
  BY <1>1, <1>10, <1>11, CutNothing
<1> QED BY <1>7, <1>10, <1>12 DEF b, n, others, players

\* The items of the actor the player interacts with, when they are not cut.
LEMMA TargetComplete ==
    ASSUME NEW player, NEW controller, IsArray(controller.items),
           ~BuildTarget(player, controller).truncated,
           BuildTarget(player, controller).actor # Null,
           BuildTarget(player, controller).actor = controller.interaction
    PROVE  \A i \in ToSet(controller.items) :
                ItemName(i) = <<>> \/ i \in ToSet(BuildTarget(player, controller).items)
<1> DEFINE items == controller.items
           S == ToSet(items)
           candidates == <<controller.interaction, controller.interactable,
                           controller.building, player.looking, player.aiming>>
           first == SelectInSeq(candidates, LAMBDA t : t # Null)
           b == BuildTarget(player, controller)
           T == {i \in S : ItemName(i) # <<>>}
           read == Cut(items, MaxInteractedItems)
<1>1. first # 0
  BY DEF BuildTarget
<1>2. b.actor = candidates[first]
  BY <1>1 DEF BuildTarget
<1>3. controller.interaction = candidates[first]
  BY <1>2
<1>4. /\ b.truncated = (Len(items) > MaxInteractedItems)
      /\ b.items = Keep(read, LAMBDA item : ItemName(item) # <<>>)
  BY <1>1, <1>3 DEF BuildTarget
<1>5. MaxInteractedItems \in Nat
  BY SectionsAssumption
<1>6. items \in Seq(S)
  BY DEF IsArray
<1>7. ~(Len(items) > MaxInteractedItems)
  BY <1>4
<1> HIDE DEF S, b
<1>8. read = items
  BY <1>5, <1>6, <1>7, CutNothing
<1>9. b.items = Selected(items, T)
  <2> DEFINE f == [n \in DOMAIN items |-> IF ItemName(items[n]) # <<>> THEN <<items[n]>> ELSE <<>>]
             g == [n \in DOMAIN items |-> IF items[n] \in T THEN <<items[n]>> ELSE <<>>]
  <2>1. \A n \in DOMAIN items : items[n] \in S
    BY DEF S, ToSet
  <2>2. f = g
    BY <2>1
  <2>3. b.items = FlattenSeq(f)
    BY <1>4, <1>8 DEF Keep
  <2>4. Selected(items, T) = FlattenSeq(g)
    BY DEF Selected
  <2> QED BY <2>2, <2>3, <2>4
<1>10. ToSet(Selected(items, T)) = ToSet(items) \cap T
  <2> HIDE DEF T, items
  <2> QED BY <1>6, SelectedRange
<1> QED BY <1>9, <1>10 DEF S, b

---------------------------------------------------------------------------
(***************************************************************************)
(* Progression                                                             *)
(***************************************************************************)
Researching == INSTANCE Folding WITH op <- AddTechnology
Tracking == INSTANCE Folding WITH op <- AddObjective

\* The folds of the instances are those of the model.
LEMMA ResearchingIsFold == \A b, s : Researching!Fold(b, s) = FoldLeft(AddTechnology, b, s)
BY DEF Researching!Fold, FoldLeft, Researching!FoldLeft, MapThenFoldSet,
       Researching!MapThenFoldSet, Max, Researching!Max

\* The same for the other one.
LEMMA TrackingIsFold == \A b, s : Tracking!Fold(b, s) = FoldLeft(AddObjective, b, s)
BY DEF Tracking!Fold, FoldLeft, Tracking!FoldLeft, MapThenFoldSet, Tracking!MapThenFoldSet,
       Max, Tracking!Max

\* One more entry of the technology.
LEMMA TechnologyAdded ==
    ASSUME NEW V, NEW l \in Seq(V), NEW e, e # Null => TechnologyName(e) \in V
    PROVE  /\ AddTechnology(l, e) \in Seq(V)
           /\ ToSet(l) \subseteq ToSet(AddTechnology(l, e))
           /\ e # Null /\ TechnologyName(e) # <<>> =>
                TechnologyName(e) \in ToSet(AddTechnology(l, e))
<1>1. CASE e = Null \/ TechnologyName(e) = <<>>
  BY <1>1 DEF AddTechnology
<1>2. CASE e # Null /\ TechnologyName(e) # <<>> /\ Contains(l, TechnologyName(e))
  <2>1. AddTechnology(l, e) = l
    BY <1>2 DEF AddTechnology
  <2>2. DOMAIN l = 1 .. Len(l)
    OBVIOUS
  <2>3. TechnologyName(e) \in ToSet(l)
    BY <1>2, <2>2 DEF Contains, ToSet
  <2> QED BY <2>1, <2>3
<1>3. CASE e # Null /\ TechnologyName(e) # <<>> /\ ~Contains(l, TechnologyName(e))
  <2> DEFINE x == TechnologyName(e)
  <2>1. AddTechnology(l, e) = Append(l, x)
    BY <1>3 DEF AddTechnology
  <2>2. x \in V
    BY <1>3
  <2> HIDE DEF x
  <2>3. Append(l, x) \in Seq(V) /\ ToSet(Append(l, x)) = ToSet(l) \cup {x}
    BY <2>2, RangeAppend
  <2> QED BY <2>1, <2>3 DEF x
<1> QED BY <1>1, <1>2, <1>3

\* All technology is named when it is not cut.
LEMMA TechnologyComplete ==
    ASSUME NEW entries, IsArray(entries), ~(Len(entries) > MaxTechnologyEntries)
    PROVE  Researched(entries) \subseteq ToSet(TechnologyNames(entries))
<1> DEFINE S == ToSet(entries)
           V == {TechnologyName(e) : e \in S \ {Null}}
           n == Len(entries)
           R == [k \in 0 .. n |-> {l \in Seq(V) : \A j \in 1 .. k :
                    entries[j] # Null /\ TechnologyName(entries[j]) # <<>> =>
                        TechnologyName(entries[j]) \in ToSet(l)}]
<1>1. entries \in Seq(S)
  BY DEF IsArray
<1>2. n \in Nat /\ DOMAIN entries = 1 .. n /\ S = {entries[j] : j \in 1 .. n}
  BY <1>1, RangeOf
<1>3. Cut(entries, MaxTechnologyEntries) = entries
  BY <1>1, SectionsAssumption, CutNothing
<1>4. \A j \in 1 .. n : entries[j] # Null => TechnologyName(entries[j]) \in V
  BY <1>2
<1> HIDE DEF V, n
<1>5. <<>> \in R[0]
  <2>1. 0 \in 0 .. n /\ <<>> \in Seq(V) /\ 1 .. 0 = {}
    BY <1>2
  <2> QED BY <2>1
<1>6. ASSUME NEW k \in 1 .. n, NEW l \in R[k - 1] PROVE AddTechnology(l, entries[k]) \in R[k]
  <2> DEFINE e == entries[k]
             m == AddTechnology(l, e)
  <2>1. k - 1 \in 0 .. n /\ k \in 0 .. n /\ \A j \in 1 .. k : j \in 1 .. k - 1 \/ j = k
    BY <1>2
  <2>2. l \in Seq(V) /\ \A j \in 1 .. k - 1 :
            entries[j] # Null /\ TechnologyName(entries[j]) # <<>> =>
                TechnologyName(entries[j]) \in ToSet(l)
    BY <2>1
  <2>3. e # Null => TechnologyName(e) \in V
    BY <1>4
  <2>4. /\ m \in Seq(V) /\ ToSet(l) \subseteq ToSet(m)
        /\ e # Null /\ TechnologyName(e) # <<>> => TechnologyName(e) \in ToSet(m)
    <3> HIDE DEF e
    <3> QED BY <2>2, <2>3, TechnologyAdded
  <2> HIDE DEF m
  <2>5. \A j \in 1 .. k : entries[j] # Null /\ TechnologyName(entries[j]) # <<>> =>
            TechnologyName(entries[j]) \in ToSet(m)
    BY <2>1, <2>2, <2>4
  <2>6. m \in R[k]
    BY <2>1, <2>4, <2>5
  <2> QED BY <2>6 DEF m
<1> HIDE DEF R
<1>7. Researching!Fold(<<>>, entries) \in R[n]
  BY <1>2, <1>5, <1>6, Researching!FoldKeeps
<1>8. TechnologyNames(entries) = Researching!Fold(<<>>, entries)
  BY <1>3, ResearchingIsFold DEF TechnologyNames
<1>9. \A j \in 1 .. n : entries[j] # Null /\ TechnologyName(entries[j]) # <<>> =>
            TechnologyName(entries[j]) \in ToSet(TechnologyNames(entries))
  BY <1>2, <1>7, <1>8 DEF R
<1> HIDE DEF S
<1> QED BY <1>2, <1>9 DEF Researched, S

\* A progression that is not cut shows all that the game has.
LEMMA ProgressionComplete ==
    ASSUME NEW game, game # Null, IsGame(game), NEW controller,
           controller.skills # Null => IsArray(controller.skills),
           ~BuildProgression(game, controller).truncated
    PROVE  LET part == BuildProgression(game, controller) IN
           /\ controller.skills # Null => part.skills = controller.skills
           /\ game.corporations # Null =>
                \A c \in ToSet(game.corporations) : c.hidden \/ c \in ToSet(part.corporations)
           /\ game.technology # Null =>
                /\ Researched(game.technology.buildings) \subseteq ToSet(part.technology[1])
                /\ Researched(game.technology.recipes) \subseteq ToSet(part.technology[2])
<1> DEFINE part == BuildProgression(game, controller)
           rows(array) == IF array = Null THEN <<>> ELSE array
           corporations == rows(game.corporations)
           technology == IF game.technology = Null THEN <<<<>>, <<>>>>
                         ELSE <<game.technology.buildings, game.technology.recipes>>
<1>1. /\ part.truncated = (\/ Len(rows(controller.skills)) > MaxRows
                           \/ Len(corporations) > MaxRows
                           \/ Len(technology[1]) > MaxTechnologyEntries
                           \/ Len(technology[2]) > MaxTechnologyEntries)
      /\ part.skills = Cut(rows(controller.skills), MaxRows)
      /\ part.corporations = Keep(Cut(corporations, MaxRows), LAMBDA c : ~c.hidden)
      /\ part.technology = <<TechnologyNames(technology[1]), TechnologyNames(technology[2])>>
  BY DEF BuildProgression
<1>2. MaxRows \in Nat
  BY SectionsAssumption
<1> HIDE DEF part
<1>3. /\ ~(Len(rows(controller.skills)) > MaxRows) /\ ~(Len(corporations) > MaxRows)
      /\ ~(Len(technology[1]) > MaxTechnologyEntries)
      /\ ~(Len(technology[2]) > MaxTechnologyEntries)
  BY <1>1 DEF part
<1>4. ASSUME controller.skills # Null PROVE part.skills = controller.skills
  <2> DEFINE s == controller.skills
             S == ToSet(s)
  <2>1. rows(s) = s /\ s \in Seq(S)
    BY <1>4 DEF IsArray
  <2> HIDE DEF S
  <2>2. Cut(s, MaxRows) = s
    BY <1>2, <1>3, <2>1, CutNothing
  <2> QED BY <1>1, <2>1, <2>2
<1>5. ASSUME game.corporations # Null
      PROVE  \A c \in ToSet(game.corporations) : c.hidden \/ c \in ToSet(part.corporations)
  <2> DEFINE s == game.corporations
             S == ToSet(s)
             T == {c \in S : ~c.hidden}
             f == [n \in DOMAIN s |-> IF ~s[n].hidden THEN <<s[n]>> ELSE <<>>]
             g == [n \in DOMAIN s |-> IF s[n] \in T THEN <<s[n]>> ELSE <<>>]
  <2>1. corporations = s /\ s \in Seq(S)
    BY <1>5 DEF IsGame, IsArray
  <2>2. \A n \in DOMAIN s : s[n] \in S
    BY DEF ToSet
  <2>3. f = g
    BY <2>2
  <2> HIDE DEF S
  <2>4. Cut(s, MaxRows) = s
    BY <1>2, <1>3, <2>1, CutNothing
  <2>5. part.corporations = FlattenSeq(f)
    BY <1>1, <2>1, <2>4 DEF Keep
  <2>6. Selected(s, T) = FlattenSeq(g)
    BY DEF Selected
  <2>7. ToSet(Selected(s, T)) = ToSet(s) \cap T
    <3> HIDE DEF T, s
    <3> QED BY <2>1, SelectedRange
  <2>8. ToSet(part.corporations) = ToSet(s) \cap T
    BY <2>3, <2>5, <2>6, <2>7
  <2> HIDE DEF part
  <2> QED BY <2>8 DEF S
<1>6. ASSUME game.technology # Null
      PROVE /\ Researched(game.technology.buildings) \subseteq ToSet(part.technology[1])
            /\ Researched(game.technology.recipes) \subseteq ToSet(part.technology[2])
  <2>1. technology[1] = game.technology.buildings /\ technology[2] = game.technology.recipes
    BY <1>6
  <2>2. IsArray(technology[1]) /\ IsArray(technology[2])
    BY <1>6, <2>1 DEF IsGame
  <2> HIDE DEF technology
  <2>3. /\ part.technology[1] = TechnologyNames(technology[1])
        /\ part.technology[2] = TechnologyNames(technology[2])
    BY <1>1
  <2> QED BY <1>3, <2>1, <2>2, <2>3, TechnologyComplete
<1> QED BY <1>4, <1>5, <1>6 DEF part

---------------------------------------------------------------------------
(***************************************************************************)
(* Objectives                                                              *)
(***************************************************************************)
\* An array that has become longer.
LEMMA ArrayAppend ==
    ASSUME NEW a, IsArray(a), NEW x
    PROVE  LET u == Append(a, x) IN
           /\ IsArray(u) /\ Len(a) \in Nat /\ Len(u) = Len(a) + 1 /\ u[Len(a) + 1] = x
           /\ DOMAIN a = 1 .. Len(a) /\ DOMAIN u = 1 .. Len(a) + 1
           /\ \A i \in 1 .. Len(a) : u[i] = a[i]
<1> DEFINE V == ToSet(a) \cup {x}
           S == ToSet(a)
           u == Append(a, x)
           n == Len(a)
<1>1. a \in Seq(S)
  BY DEF IsArray
<1>2. S \subseteq V /\ x \in V
  OBVIOUS
<1> HIDE DEF S, V
<1>3. a \in Seq(V)
  BY <1>1, <1>2
<1>4. /\ u \in Seq(V) /\ n \in Nat /\ Len(u) = n + 1 /\ u[n + 1] = x
      /\ DOMAIN a = 1 .. n /\ DOMAIN u = 1 .. n + 1 /\ \A i \in 1 .. n : u[i] = a[i]
  BY <1>2, <1>3
<1> HIDE DEF u
<1>5. IsArray(u)
  BY <1>4, RangeOf DEF IsArray
<1> QED BY <1>4, <1>5 DEF u

ObjectiveFields == {"available", "truncated", "activeCount", "completedCount", "remaining",
                    "active", "table"}
IsTracker(acc) ==
    /\ acc = [f \in ObjectiveFields |-> acc[f]]
    /\ acc.truncated \in BOOLEAN /\ acc.available = TRUE /\ IsArray(acc.active)

\* An objective is counted, or shown with its parts, or something is cut.
LEMMA ObjectiveAdded ==
    ASSUME NEW acc, IsTracker(acc), NEW o
    PROVE  LET next == AddObjective(acc, o) IN
           /\ IsTracker(next)
           /\ acc.truncated => next.truncated
           /\ o.state # "active" => next.active = acc.active
           /\ o.state = "active" /\ ~next.truncated =>
                \E x : next.active = Append(acc.active, x) /\ x.subs = o.subs
<1> DEFINE next == AddObjective(acc, o)
<1>1. acc = [f \in ObjectiveFields |-> acc[f]] /\ acc.truncated \in BOOLEAN
      /\ acc.available = TRUE /\ IsArray(acc.active)
  BY DEF IsTracker
<1>2. Len(acc.active) \in Nat /\ MaxObjectives \in Nat
  BY <1>1, ArrayAppend, SectionsAssumption
<1>3. CASE o.state = "completed"
  <2>1. next = [acc EXCEPT !.completedCount = acc.completedCount + 1]
    BY <1>3 DEF AddObjective
  <2> HIDE DEF next
  <2>2. /\ next = [f \in ObjectiveFields |-> next[f]]
        /\ next.truncated = acc.truncated /\ next.available = acc.available
        /\ next.active = acc.active
    BY <1>1, <2>1 DEF ObjectiveFields
  <2> QED BY <1>1, <1>3, <2>2 DEF IsTracker, next
<1>4. CASE o.state = "active" /\ Len(acc.active) >= MaxObjectives
  <2>1. ~(Len(acc.active) < MaxObjectives)
    BY <1>2, <1>4
  <2>2. next = [acc EXCEPT !.activeCount = @ + 1, !.truncated = TRUE]
    BY <1>4, <2>1 DEF AddObjective
  <2> HIDE DEF next
  <2>3. /\ next = [f \in ObjectiveFields |-> next[f]]
        /\ next.truncated = TRUE /\ next.available = acc.available
        /\ next.active = acc.active
    BY <1>1, <2>2 DEF ObjectiveFields
  <2> QED BY <1>1, <1>4, <2>3 DEF IsTracker, next
<1>5. CASE o.state = "active" /\ Len(acc.active) < MaxObjectives
  <2> DEFINE subs == IF o.subs > acc.remaining THEN acc.remaining ELSE o.subs
             row == FindObjectiveDefinition(acc.table, o.id)
             x == [id |-> o.id, subs |-> subs,
                   title |-> IF row = Null THEN <<>> ELSE SafeText(row.title)]
  <2>1. ~(Len(acc.active) >= MaxObjectives)
    BY <1>2, <1>5
  <2>2. next = [acc EXCEPT !.activeCount = @ + 1,
                           !.truncated = @ \/ SubsLost(acc, o),
                           !.remaining = @ - subs,
                           !.active = Append(@, x)]
    BY <1>5, <2>1 DEF AddObjective
  <2>3. x.subs = subs
    OBVIOUS
  <2> HIDE DEF next, x
  <2>4. /\ next = [f \in ObjectiveFields |-> next[f]]
        /\ next.truncated = (acc.truncated \/ SubsLost(acc, o))
        /\ next.available = acc.available
        /\ next.active = Append(acc.active, x)
    BY <1>1, <2>2 DEF ObjectiveFields
  <2>5. ~next.truncated => x.subs = o.subs
    BY <2>3, <2>4 DEF SubsLost
  <2>6. IsArray(next.active)
    BY <1>1, <2>4, ArrayAppend
  <2>7. next.truncated \in BOOLEAN /\ (acc.truncated => next.truncated)
    BY <2>4
  <2> QED BY <1>1, <1>5, <2>4, <2>5, <2>6, <2>7 DEF IsTracker, next
<1>6. CASE o.state \notin {"active", "completed"}
  <2>1. next = acc
    BY <1>6 DEF AddObjective
  <2> QED BY <1>6, <2>1
<1>7. \/ o.state = "completed" \/ o.state \notin {"active", "completed"}
      \/ o.state = "active" /\ Len(acc.active) >= MaxObjectives
      \/ o.state = "active" /\ Len(acc.active) < MaxObjectives
  BY <1>2
<1> QED BY <1>3, <1>4, <1>5, <1>6, <1>7

\* The objectives are all shown, with all their parts, when nothing is cut.
LEMMA ObjectivesComplete ==
    ASSUME NEW w, w.game # Null, IsGame(w.game), w.game.objectives # Null,
           ~BuildObjectives(w.game).truncated
    PROVE  LET part == BuildObjectives(w.game) IN
           /\ Len(part.active) = Len(Active(w))
           /\ \A k \in DOMAIN part.active : part.active[k].subs = Active(w)[k].subs
<1> DEFINE game == w.game
           all == game.objectives
           S == ToSet(all)
           T == {o \in S : o.state = "active"}
           s == Cut(all, MaxEntries)
           n == Len(s)
           first == [available |-> TRUE, truncated |-> Len(all) > MaxEntries,
                     activeCount |-> 0, completedCount |-> 0,
                     remaining |-> MaxSubObjectives, active |-> <<>>,
                     table |-> game.definitions]
           part == BuildObjectives(game)
           sel(k) == Selected(SubSeq(s, 1, k), T)
<1>1. all \in Seq(S) /\ MaxEntries \in Nat
  BY SectionsAssumption DEF IsGame, IsArray
<1>2. part = Tracking!Fold(first, s)
  BY TrackingIsFold DEF BuildObjectives
<1>3. /\ IsTracker(first) /\ first.active = <<>>
      /\ first.truncated = (Len(all) > MaxEntries)
  <2>1. first = [f \in ObjectiveFields |-> first[f]]
    BY DEF ObjectiveFields
  <2>2. /\ first.truncated = (Len(all) > MaxEntries) /\ first.available = TRUE
        /\ first.active = <<>>
    OBVIOUS
  <2>3. IsArray(<<>>)
    BY DEF IsArray
  <2>4. (Len(all) > MaxEntries) \in BOOLEAN
    OBVIOUS
  <2> HIDE DEF first
  <2> QED BY <2>1, <2>2, <2>3, <2>4 DEF IsTracker
<1> HIDE DEF first, part, S
<1>4. s \in Seq(S)
  BY <1>1, CutPart
<1> HIDE DEF s
<1>5. n \in Nat /\ DOMAIN s = 1 .. n
  BY <1>4
<1>6. PICK f : Tracking!Series(first, s, n, f) /\ Tracking!Fold(first, s) = f[n]
  BY <1>5, Tracking!FoldHasSeries
<1> DEFINE Good(acc, k) ==
             /\ IsTracker(acc)
             /\ ~acc.truncated =>
                /\ ~(Len(all) > MaxEntries)
                /\ Len(acc.active) = Len(sel(k))
                /\ \A j \in 1 .. Len(sel(k)) : acc.active[j].subs = sel(k)[j].subs
           P == {k \in Nat : k <= n => Good(f[k], k)}
<1>7. 0 \in P
  <2>1. f[0] = first
    BY <1>6 DEF Tracking!Series
  <2>2. SubSeq(s, 1, 0) = <<>>
    BY <1>4
  <2>3. sel(0) = <<>>
    BY <2>2, SelectedEmpty
  <2>4. Len(<<>>) = 0 /\ 1 .. 0 = {}
    OBVIOUS
  <2> HIDE DEF sel
  <2>5. Good(first, 0)
    BY <1>3, <2>3, <2>4
  <2> QED BY <2>1, <2>5
<1>8. ASSUME NEW k \in Nat, k \in P PROVE k + 1 \in P
  <2> SUFFICES ASSUME k + 1 <= n PROVE Good(f[k + 1], k + 1)
    OBVIOUS
  <2> DEFINE o == s[k + 1]
             acc == f[k]
             next == f[k + 1]
             t == SubSeq(s, 1, k)
             old == sel(k)
             new == sel(k + 1)
  <2>1. k < Len(s) /\ k <= Len(s) /\ k <= n /\ k + 1 \in 1 .. n /\ (k + 1) - 1 = k
    BY <1>5
  <2>2. Good(acc, k)
    BY <1>8, <2>1
  <2>3. o \in S /\ SubSeq(s, 1, k + 1) = Append(t, o)
    BY <1>4, <2>1, OneMore
  <2>4. t \in Seq(S)
    BY <1>4, <2>1, FirstPart
  <2>5. next = AddObjective(acc, o)
    BY <1>6, <2>1 DEF Tracking!Series
  <2> HIDE DEF t, o
  <2>6. old \in Seq(S) /\ new = IF o \in T THEN Append(old, o) ELSE old
    <3>1. old = Selected(t, T) /\ new = Selected(Append(t, o), T)
      BY <2>3 DEF t
    <3> HIDE DEF T, old, new
    <3>2. o \in S
      BY <2>3
    <3>3. /\ Selected(t, T) \in Seq(S)
          /\ Selected(Append(t, o), T) = IF o \in T THEN Append(Selected(t, T), o) ELSE Selected(t, T)
      BY <2>4, <3>2, SelectedAppend
    <3> QED BY <3>1, <3>3
  <2> HIDE DEF sel, old, new, acc, next
  <2>7. /\ IsTracker(acc)
        /\ ~acc.truncated =>
            /\ ~(Len(all) > MaxEntries) /\ Len(acc.active) = Len(old)
            /\ \A j \in 1 .. Len(old) : acc.active[j].subs = old[j].subs
    BY <2>2 DEF old
  <2>8. /\ IsTracker(next) /\ acc.truncated => next.truncated
        /\ o.state # "active" => next.active = acc.active
        /\ o.state = "active" /\ ~next.truncated =>
            \E x : next.active = Append(acc.active, x) /\ x.subs = o.subs
    BY <2>5, <2>7, ObjectiveAdded
  <2>9. IsTracker(next) /\ (acc.truncated => next.truncated)
    BY <2>5, <2>7, ObjectiveAdded
  <2>10. acc.truncated \in BOOLEAN /\ next.truncated \in BOOLEAN /\ IsArray(acc.active)
    BY <2>7, <2>9 DEF IsTracker
  <2>11. ASSUME ~next.truncated
        PROVE  /\ ~(Len(all) > MaxEntries) /\ Len(next.active) = Len(new)
               /\ \A j \in 1 .. Len(new) : next.active[j].subs = new[j].subs
    <3>1. /\ ~(Len(all) > MaxEntries) /\ Len(acc.active) = Len(old)
          /\ \A j \in 1 .. Len(old) : acc.active[j].subs = old[j].subs
      BY <2>7, <2>9, <2>10, <2>11
    <3>2. CASE o.state # "active"
      <4>1. o \notin T
        BY <3>2
      <4>2. new = old /\ next.active = acc.active
        BY <2>6, <2>8, <3>2, <4>1
      <4> QED BY <3>1, <4>2
    <3>3. CASE o.state = "active"
      <4>1. new = Append(old, o)
        BY <2>3, <2>6, <3>3
      <4>2. PICK x : next.active = Append(acc.active, x) /\ x.subs = o.subs
        BY <2>5, <2>7, <2>11, <3>3, ObjectiveAdded
      <4> DEFINE a == acc.active
                 b == next.active
                 m == Len(a)
      <4>3. m \in Nat /\ Len(b) = m + 1 /\ b[m + 1] = x /\ \A i \in 1 .. m : b[i] = a[i]
        BY <2>10, <4>2, ArrayAppend
      <4>4. Len(new) = m + 1 /\ new[m + 1] = o /\ \A i \in 1 .. m : new[i] = old[i]
        BY <2>3, <2>6, <3>1, <4>1
      <4>5. m = Len(old) /\ \A j \in 1 .. m : a[j].subs = old[j].subs
        BY <3>1
      <4> HIDE DEF a, b, m
      <4>6. \A j \in 1 .. m + 1 : j = m + 1 \/ j \in 1 .. m
        BY <4>3
      <4>7. \A j \in 1 .. m + 1 : b[j].subs = new[j].subs
        BY <4>2, <4>3, <4>4, <4>5, <4>6
      <4> QED BY <3>1, <4>3, <4>4, <4>7 DEF b
    <3> QED BY <3>2, <3>3
  <2>12. Good(next, k + 1)
    BY <2>9, <2>11 DEF new
  <2> QED BY <2>12 DEF next
<1> HIDE DEF P
<1>9. n \in P
  <2>1. Nat \subseteq P
    BY <1>7, <1>8, Induction
  <2> QED BY <1>5, <2>1
<1>10. Good(f[n], n)
  <2> HIDE DEF Good
  <2>1. n <= n
    BY <1>5
  <2> QED BY <1>9, <2>1 DEF P
<1>11. part = f[n] /\ ~part.truncated
  BY <1>2, <1>6 DEF part
<1>12. /\ IsTracker(part) /\ ~(Len(all) > MaxEntries)
       /\ Len(part.active) = Len(sel(n))
       /\ \A j \in 1 .. Len(sel(n)) : part.active[j].subs = sel(n)[j].subs
  <2> HIDE DEF sel
  <2> QED BY <1>10, <1>11
<1>13. s = all
  BY <1>1, <1>12, CutNothing DEF s
<1>14. sel(n) = Selected(all, T)
  <2>1. SubSeq(all, 1, Len(all)) = all
    BY <1>1
  <2> QED BY <1>13, <2>1
<1>15. Selected(all, T) = Active(w)
  <2> DEFINE fs == [i \in DOMAIN all |-> IF all[i].state = "active" THEN <<all[i]>> ELSE <<>>]
             g == [i \in DOMAIN all |-> IF all[i] \in T THEN <<all[i]>> ELSE <<>>]
  <2>1. \A i \in DOMAIN all : all[i] \in S
    BY DEF S, ToSet
  <2>2. fs = g
    BY <2>1
  <2>3. Active(w) = FlattenSeq(fs)
    BY DEF Active, Keep
  <2>4. Selected(all, T) = FlattenSeq(g)
    BY DEF Selected
  <2> QED BY <2>2, <2>3, <2>4
<1>16. DOMAIN part.active = 1 .. Len(part.active)
  BY <1>12, ArrayAppend DEF IsTracker
<1> HIDE DEF sel
<1> QED BY <1>12, <1>14, <1>15, <1>16 DEF part

---------------------------------------------------------------------------
(***************************************************************************)
(* What a snapshot leaves out                                              *)
(***************************************************************************)
\* A section that is written and not cut shows all that the world has to say in it.
LEMMA SectionComplete ==
    ASSUME NEW w \in UNION {Worlds[q] : q \in Platforms},
           NEW name \in Nested \cup {"inventory", "gems"},
           ReadSections(w)[Place[name]].value.available,
           ~ReadSections(w)[Place[name]].value.truncated
    PROVE  Complete(w, name, ReadSections(w)[Place[name]].value)
<1> DEFINE part == ReadSections(w)[Place[name]].value
<1>1. /\ IsBag(w.player.inventory, w.player.inventoryStore)
      /\ IsBag(w.player.gems, w.player.gemStore)
      /\ w.game # Null => IsGame(w.game)
      /\ w.controller.skills # Null => IsArray(w.controller.skills)
      /\ IsArray(w.controller.items)
  BY WorldsAssumption
<1>2. CASE name = "inventory"
  <2>1. part = BuildItemContainer(w.player.inventory, w.player.inventoryStore)
    BY <1>2, SectionsRead DEF BuildInventory, Place
  <2> DEFINE b == BuildItemContainer(w.player.inventory, w.player.inventoryStore)
  <2>2. b.available /\ ~b.truncated
    BY <2>1
  <2>3. \A i \in Holds(w.player.inventory, w.player.inventoryStore) : ItemName(i) \in Named(b.items)
    BY <1>1, <2>2, BagComplete
  <2> HIDE DEF b
  <2>4. Complete(w, name, b)
    BY <1>2, <2>3 DEF Complete
  <2> QED BY <2>1, <2>4 DEF b
<1>3. CASE name = "gems"
  <2>1. part = BuildItemContainer(w.player.gems, w.player.gemStore)
    BY <1>3, SectionsRead DEF BuildGems, Place
  <2> DEFINE b == BuildItemContainer(w.player.gems, w.player.gemStore)
  <2>2. b.available /\ ~b.truncated
    BY <2>1
  <2>3. \A i \in Holds(w.player.gems, w.player.gemStore) : ItemName(i) \in Named(b.items)
    BY <1>1, <2>2, BagComplete
  <2> HIDE DEF b
  <2>4. Complete(w, name, b)
    BY <1>3, <2>3 DEF Complete
  <2> QED BY <2>1, <2>4 DEF b
<1>4. CASE name = "session"
  <2>1. part = BuildSession(w.game, w.local)
    BY <1>4, SectionsRead DEF Place
  <2>2. w.game # Null
    BY <2>1 DEF BuildSession, Unavailable
  <2>3. IsArray(w.game.players)
    BY <1>1, <2>2 DEF IsGame
  <2> DEFINE b == BuildSession(w.game, w.local)
  <2>4. ~b.truncated
    BY <2>1
  <2>5. Len(b.closest) = Len(Others(w.game.players, w.local))
    BY <2>2, <2>3, <2>4, SessionComplete
  <2> HIDE DEF b
  <2>6. Complete(w, name, b)
    BY <1>4, <2>5 DEF Complete
  <2> QED BY <2>1, <2>6 DEF b
<1>5. CASE name = "progression"
  <2>1. part = BuildProgression(w.game, w.controller)
    BY <1>5, SectionsRead DEF Place
  <2>2. w.game # Null
    BY <2>1 DEF BuildProgression, Unavailable
  <2>3. IsGame(w.game) /\ (w.controller.skills # Null => IsArray(w.controller.skills))
    BY <1>1, <2>2
  <2> DEFINE b == BuildProgression(w.game, w.controller)
  <2>4. ~b.truncated
    BY <2>1
  <2>5. /\ w.controller.skills # Null => b.skills = w.controller.skills
        /\ w.game.corporations # Null =>
             \A c \in ToSet(w.game.corporations) : c.hidden \/ c \in ToSet(b.corporations)
        /\ w.game.technology # Null =>
             /\ Researched(w.game.technology.buildings) \subseteq ToSet(b.technology[1])
             /\ Researched(w.game.technology.recipes) \subseteq ToSet(b.technology[2])
    BY <2>2, <2>3, <2>4, ProgressionComplete
  <2> HIDE DEF b
  <2>6. Complete(w, name, b)
    BY <1>5, <2>5 DEF Complete
  <2> QED BY <2>1, <2>6 DEF b
<1>6. CASE name = "objectives"
  <2>1. part = BuildObjectives(w.game)
    BY <1>6, SectionsRead DEF Place
  <2>2. w.game # Null /\ w.game.objectives # Null
    BY <2>1 DEF BuildObjectives, Unavailable
  <2> DEFINE b == BuildObjectives(w.game)
  <2>4. ~b.truncated
    BY <2>1
  <2>5. Len(b.active) = Len(Active(w)) /\ \A k \in DOMAIN b.active : b.active[k].subs = Active(w)[k].subs
    BY <1>1, <2>2, <2>4, ObjectivesComplete
  <2> HIDE DEF b
  <2>6. Complete(w, name, b)
    BY <1>6, <2>5 DEF Complete
  <2> QED BY <2>1, <2>6 DEF b
<1>7. CASE name = "target"
  <2>1. part = BuildTarget(w.player, w.controller)
    BY <1>7, SectionsRead DEF Place
  <2> DEFINE b == BuildTarget(w.player, w.controller)
  <2>2. ~b.truncated
    BY <2>1
  <2>3. b.actor # Null /\ b.actor = w.controller.interaction =>
          \A i \in ToSet(w.controller.items) : ItemName(i) = <<>> \/ i \in ToSet(b.items)
    BY <1>1, <2>2, TargetComplete
  <2> HIDE DEF b
  <2>4. Complete(w, name, b)
    BY <1>7, <2>3 DEF Complete
  <2> QED BY <2>1, <2>4 DEF b
<1>8. CASE name \in {"environment", "base"}
  BY <1>8 DEF Complete
<1> QED BY <1>2, <1>3, <1>4, <1>5, <1>6, <1>7, <1>8 DEF Nested

\* What a snapshot leaves out of a world is listed.
LEMMA OmissionsOfWorld ==
    ASSUME NEW p \in Platforms, NEW w \in Worlds[p], NEW live,
           live.world = w, live.doc = Capture(w)
    PROVE  Omitted(live) \subseteq ToSet(live.doc.missing) \cup ToSet(live.doc.truncated)
<1> DEFINE doc == Capture(w)
           s == ReadSections(w)
           Parts == Nested \cup {"inventory", "gems"}
           listed == ToSet(doc.missing) \cup ToSet(doc.truncated)
<1>1. w \in UNION {Worlds[q] : q \in Platforms}
  OBVIOUS
<1>2. CASE w.pawn # "ready"
  <2>1. doc.available = FALSE /\ doc.missing = AllSections
    BY <1>2, NotCaptured
  <2> HIDE DEF doc
  <2>2. Omitted(live) = ToSet(AllSections)
    BY <2>1 DEF Omitted, doc
  <2> QED BY <2>1, <2>2 DEF doc
<1>3. CASE w.pawn = "ready"
  <2>1. doc.available
    BY <1>3, Captured
  <2>2. Fits(w, Prune(Whole(w, s)))
    BY <1>1, <1>3, RoomAssumption
  <2>3. doc.body = Whole(w, s) \/ doc.body = Prune(Whole(w, s))
    BY <1>3, <2>2, Captured
  <2>4. DOMAIN Whole(w, s) = Core \cup Parts
    BY DEF Whole
  <2>5. DOMAIN doc.body = Core \cup Parts
    <3> HIDE DEF s, Parts, doc
    <3>1. DOMAIN Prune(Whole(w, s)) = DOMAIN Whole(w, s)
      BY DEF Prune
    <3> QED BY <2>3, <2>4, <3>1
  <2>6. /\ \A k \in 1 .. 8 : ~s[k].value.available => s[k].name \in ToSet(doc.missing)
        /\ \A k \in 1 .. 8 : s[k].value.truncated => s[k].name \in ToSet(doc.truncated)
        /\ doc.truncated = Listed(Truncated(s)) =>
              {"inventory", "gems", "progression", "objectives"} \subseteq ToSet(doc.truncated)
    BY <1>3, SectionLists
  <2> HIDE DEF doc, s
  <2>0. \A name \in Parts : /\ s[Place[name]].value.available
                            /\ ~s[Place[name]].value.truncated
            => Complete(w, name, s[Place[name]].value)
    BY <1>1, SectionComplete DEF s
  <2>7. ASSUME NEW name \in Parts,
               doc.body[name] = Null \/ ~Complete(w, name, doc.body[name])
        PROVE  name \in listed
    <3> DEFINE k == Place[name]
               part == s[k].value
    <3>1. /\ k \in 1 .. 8 /\ s[k].name = name
          /\ Value(s, name) = IF part.available THEN part ELSE Null
      BY ValueRead DEF s
    <3>2. /\ name \notin {"inventory", "gems", "progression", "objectives"} =>
                doc.body[name] = Value(s, name)
          /\ doc.body[name] = Value(s, name) \/ doc.truncated = Listed(Truncated(s))
      BY <1>3, <2>5, CapturedPart DEF s, doc
    <3>3. CASE ~part.available
      BY <2>6, <3>1, <3>3
    <3>4. CASE part.truncated
      BY <2>6, <3>1, <3>4
    <3>5. CASE doc.body[name] # Value(s, name)
      BY <2>6, <3>2, <3>5
    <3>6. CASE part.available /\ ~part.truncated /\ doc.body[name] = Value(s, name)
      <4>1. doc.body[name] = part
        BY <3>1, <3>6
      <4>2. part # Null
        BY <1>1, <3>1, NullAssumption DEF s
      <4>3. Complete(w, name, part)
        BY <2>0, <3>6
      <4> QED BY <2>7, <4>1, <4>2, <4>3
    <3> QED BY <3>3, <3>4, <3>5, <3>6
  <2>8. ASSUME NEW name \in Parts,
               name \notin DOMAIN doc.body \/ doc.body[name] = Null
                    \/ ~Complete(w, name, doc.body[name])
        PROVE  name \in listed
    BY <2>5, <2>7, <2>8
  <2>9. Omitted(live) = {name \in Parts : name \notin DOMAIN doc.body
            \/ doc.body[name] = Null \/ ~Complete(w, name, doc.body[name])}
    BY <2>1 DEF Omitted, doc
  <2> QED BY <2>8, <2>9 DEF doc
<1> QED BY <1>2, <1>3

---------------------------------------------------------------------------
(***************************************************************************)
(* Sums over a finite set                                                  *)
(***************************************************************************)
\* What holds of a set when it holds of it without any one of its elements, and
\* holds of no element at all, holds of a finite set.
LEMMA FiniteInduction ==
    ASSUME NEW S, IsFiniteSet(S), NEW G, {} \in G,
           \A s \in SUBSET S : s # {} /\ (\A x \in s : s \ {x} \in G) => s \in G
    PROVE  \A s \in SUBSET S : s \in G
<1> DEFINE P == {n \in Nat : \A s \in SUBSET S : Cardinality(s) = n => s \in G}
<1>1. \A s \in SUBSET S : IsFiniteSet(s) /\ Cardinality(s) \in Nat
  BY FS_Subset, FS_CardinalityType
<1>2. 0 \in P
  <2>1. ASSUME NEW s \in SUBSET S, Cardinality(s) = 0 PROVE s \in G
    <3>1. s = {}
      BY <1>1, <2>1, FS_EmptySet
    <3> QED BY <3>1
  <2> QED BY <2>1
<1>3. ASSUME NEW n \in Nat, n \in P PROVE n + 1 \in P
  <2>1. ASSUME NEW s \in SUBSET S, Cardinality(s) = n + 1 PROVE s \in G
    <3>1. s # {}
      BY <2>1, FS_EmptySet
    <3>2. ASSUME NEW x \in s PROVE s \ {x} \in G
      <4>1. Cardinality(s \ {x}) = Cardinality(s) - 1
        BY <1>1, FS_RemoveElement
      <4>2. s \ {x} \in SUBSET S /\ Cardinality(s \ {x}) = n
        BY <2>1, <4>1
      <4> QED BY <1>3, <4>2
    <3> QED BY <3>1, <3>2
  <2> QED BY <2>1
<1> HIDE DEF P
<1>4. Nat \subseteq P
  BY <1>2, <1>3, Induction
<1> QED BY <1>1, <1>4 DEF P

\* The element that a sum takes next.
Pick(s) == CHOOSE x \in s : TRUE

\* What there is when the elements of s are added up, for subsets of S.
Adds(g, s, f) == f[s] = IF s = {} THEN 0 ELSE g[Pick(s)] + f[s \ {Pick(s)}]
Sums(g, S, f) ==
    f = [s \in SUBSET S |-> IF s = {} THEN 0 ELSE g[Pick(s)] + f[s \ {Pick(s)}]]

\* A pick is an element.
LEMMA Picked == ASSUME NEW s, s # {} PROVE Pick(s) \in s
BY DEF Pick

\* There is a function that adds up.
LEMMA SumsExist == ASSUME NEW g, NEW S, IsFiniteSet(S) PROVE \E f : Sums(g, S, f)
<1> DEFINE P == {n \in Nat : \E f : \A s \in SUBSET S : Cardinality(s) <= n => Adds(g, s, f)}
<1>1. \A s \in SUBSET S : IsFiniteSet(s) /\ Cardinality(s) \in Nat
  BY FS_Subset, FS_CardinalityType
<1>2. 0 \in P
  <2> DEFINE f == [s \in SUBSET S |-> 0]
  <2>1. ASSUME NEW s \in SUBSET S, Cardinality(s) <= 0 PROVE Adds(g, s, f)
    <3>1. Cardinality(s) = 0
      BY <1>1, <2>1
    <3>2. s = {}
      BY <1>1, <3>1, FS_EmptySet
    <3> QED BY <3>2 DEF Adds
  <2> HIDE DEF f
  <2> QED BY <2>1
<1>3. ASSUME NEW n \in Nat, n \in P PROVE n + 1 \in P
  <2>1. PICK f : \A s \in SUBSET S : Cardinality(s) <= n => Adds(g, s, f)
    BY <1>3
  <2> DEFINE h == [s \in SUBSET S |-> IF Cardinality(s) <= n THEN f[s]
                                      ELSE g[Pick(s)] + f[s \ {Pick(s)}]]
  <2>2. ASSUME NEW s \in SUBSET S, Cardinality(s) <= n + 1 PROVE Adds(g, s, h)
    <3>1. CASE s = {}
      <4>1. Cardinality(s) = 0
        BY <3>1, FS_EmptySet
      <4>2. h[s] = f[s] /\ Adds(g, s, f)
        BY <2>1, <4>1
      <4> HIDE DEF h
      <4> QED BY <3>1, <4>2 DEF Adds
    <3>2. CASE s # {}
      <4> DEFINE r == s \ {Pick(s)}
      <4>1. Cardinality(r) = Cardinality(s) - 1
        BY <1>1, <3>2, Picked, FS_RemoveElement
      <4>2. r \in SUBSET S /\ Cardinality(r) <= n
        BY <1>1, <2>2, <4>1
      <4>3. h[r] = f[r]
        BY <4>2
      <4>4. h[s] = g[Pick(s)] + f[r]
        <5>1. CASE Cardinality(s) <= n
          <6>1. h[s] = f[s] /\ Adds(g, s, f)
            BY <2>1, <5>1
          <6> HIDE DEF h
          <6> QED BY <3>2, <6>1 DEF Adds
        <5>2. CASE ~(Cardinality(s) <= n)
          BY <5>2
        <5> QED BY <5>1, <5>2
      <4> HIDE DEF h
      <4> QED BY <3>2, <4>3, <4>4 DEF Adds
    <3> QED BY <3>1, <3>2
  <2> HIDE DEF h
  <2> QED BY <2>2
<1> HIDE DEF P
<1>4. Nat \subseteq P
  BY <1>2, <1>3, Induction
<1>5. Cardinality(S) \in P
  BY <1>1, <1>4
<1>6. PICK f : \A s \in SUBSET S : Cardinality(s) <= Cardinality(S) => Adds(g, s, f)
  BY <1>5 DEF P
<1>7. ASSUME NEW s \in SUBSET S PROVE Adds(g, s, f)
  BY <1>6, FS_Subset
<1> DEFINE h == [s \in SUBSET S |-> f[s]]
<1>8. \A s \in SUBSET S : h[s] = IF s = {} THEN 0 ELSE g[Pick(s)] + h[s \ {Pick(s)}]
  BY <1>7 DEF Adds
<1>9. h = [s \in SUBSET S |-> h[s]]
  OBVIOUS
<1> HIDE DEF h
<1>10. Sums(g, S, h)
  BY <1>8, <1>9 DEF Sums
<1> QED BY <1>10

\* The sum of the values of a function.
Total(g, S) == MapThenSumSet(LAMBDA x : g[x], S)

\* There is one sum, whatever computes it.
LEMMA SumsUnique ==
    ASSUME NEW g, NEW S, IsFiniteSet(S), NEW f, Sums(g, S, f), NEW T, NEW h, Sums(g, T, h)
    PROVE  \A s \in SUBSET S : s \in SUBSET T => f[s] = h[s]
<1> DEFINE G == {s \in SUBSET S : s \in SUBSET T => f[s] = h[s]}
<1>1. {} \in G
  BY DEF Sums
<1>2. ASSUME NEW s \in SUBSET S, s # {}, \A x \in s : s \ {x} \in G PROVE s \in G
  <2> SUFFICES ASSUME s \in SUBSET T PROVE f[s] = h[s]
    OBVIOUS
  <2>1. Pick(s) \in s
    BY <1>2, Picked
  <2>2. f[s \ {Pick(s)}] = h[s \ {Pick(s)}]
    BY <1>2, <2>1
  <2> QED BY <1>2, <2>2 DEF Sums
<1> HIDE DEF G
<1>3. \A s \in SUBSET S : s \in G
  BY <1>1, <1>2, FiniteInduction
<1> QED BY <1>3 DEF G

\* The sum is what any of them computes.
LEMMA TotalSums ==
    ASSUME NEW g, NEW S, IsFiniteSet(S)
    PROVE  \E f : Sums(g, S, f) /\ Total(g, S) = f[S]
<1> DEFINE f == CHOOSE f : Sums(g, S, f)
<1>1. Total(g, S) = f[S]
  BY DEF Total, MapThenSumSet, MapThenFoldSet, Sums, Pick
<1>2. Sums(g, S, f)
  BY SumsExist
<1> QED BY <1>1, <1>2

\* A total is what any function that adds up gives.
LEMMA TotalOf ==
    ASSUME NEW g, NEW S, IsFiniteSet(S), NEW f, Sums(g, S, f)
    PROVE  \A s \in SUBSET S : Total(g, s) = f[s]
<1> SUFFICES ASSUME NEW s \in SUBSET S PROVE Total(g, s) = f[s]
  OBVIOUS
<1>1. IsFiniteSet(s)
  BY FS_Subset
<1>2. PICK h : Sums(g, s, h) /\ Total(g, s) = h[s]
  BY <1>1, TotalSums
<1> QED BY <1>1, <1>2, SumsUnique

\* A sum of numbers is a number.
LEMMA TotalNumber ==
    ASSUME NEW g, NEW S, IsFiniteSet(S), \A x \in S : g[x] \in Nat
    PROVE  Total(g, S) \in Nat
<1>1. PICK f : Sums(g, S, f) /\ Total(g, S) = f[S]
  BY TotalSums
<1> DEFINE G == {s \in SUBSET S : f[s] \in Nat}
<1>2. {} \in G
  BY <1>1 DEF Sums
<1>3. ASSUME NEW s \in SUBSET S, s # {}, \A x \in s : s \ {x} \in G PROVE s \in G
  <2>1. Pick(s) \in s
    BY <1>3, Picked
  <2>2. f[s \ {Pick(s)}] \in Nat /\ g[Pick(s)] \in Nat
    BY <1>3, <2>1
  <2>3. f[s] = g[Pick(s)] + f[s \ {Pick(s)}]
    BY <1>1, <1>3 DEF Sums
  <2> QED BY <2>2, <2>3
<1> HIDE DEF G
<1>4. \A s \in SUBSET S : s \in G
  BY <1>2, <1>3, FiniteInduction
<1> QED BY <1>1, <1>4 DEF G

\* The sum over nothing, and over a set of which one element is picked.
LEMMA TotalPick ==
    ASSUME NEW g, NEW S, IsFiniteSet(S)
    PROVE  /\ Total(g, {}) = 0
           /\ S # {} => Total(g, S) = g[Pick(S)] + Total(g, S \ {Pick(S)})
<1>1. PICK f : Sums(g, S, f) /\ Total(g, S) = f[S]
  BY TotalSums
<1>2. \A s \in SUBSET S : Total(g, s) = f[s]
  BY <1>1, TotalOf
<1>3. {} \in SUBSET S /\ S \in SUBSET S /\ S \ {Pick(S)} \in SUBSET S
  OBVIOUS
<1>4. f[{}] = 0 /\ (S # {} => f[S] = g[Pick(S)] + f[S \ {Pick(S)}])
  BY <1>1, <1>3 DEF Sums
<1> QED BY <1>2, <1>3, <1>4

\* Any of the elements may be the first to be added.
LEMMA TotalRemove ==
    ASSUME NEW g, NEW S, IsFiniteSet(S), \A x \in S : g[x] \in Nat
    PROVE  \A x \in S : Total(g, S) = g[x] + Total(g, S \ {x})
<1> DEFINE G == {s \in SUBSET S : \A x \in s : Total(g, s) = g[x] + Total(g, s \ {x})}
<1>1. {} \in G
  OBVIOUS
<1>2. ASSUME NEW s \in SUBSET S, s # {}, \A x \in s : s \ {x} \in G PROVE s \in G
  <2> SUFFICES ASSUME NEW x \in s PROVE Total(g, s) = g[x] + Total(g, s \ {x})
    OBVIOUS
  <2> DEFINE y == Pick(s)
             a == Total(g, s \ {y})
             b == Total(g, s \ {x})
  <2>1. y \in s
    BY <1>2, Picked
  <2>2. IsFiniteSet(s) /\ IsFiniteSet(s \ {x}) /\ IsFiniteSet(s \ {y})
    BY FS_Subset
  <2>3. Total(g, s) = g[y] + a
    BY <1>2, <2>2, TotalPick
  <2> HIDE DEF y
  <2>4. CASE x = y
    BY <2>3, <2>4
  <2>5. CASE x # y
    <3> DEFINE r == (s \ {y}) \ {x}
               c == Total(g, r)
    <3>1. x \in s \ {y} /\ y \in s \ {x} /\ (s \ {x}) \ {y} = r /\ r \in SUBSET S
      BY <2>1, <2>5
    <3>2. a = g[x] + c /\ b = g[y] + c
      BY <1>2, <2>1, <3>1
    <3>3. g[x] \in Nat /\ g[y] \in Nat /\ c \in Nat
      <4>1. IsFiniteSet(r)
        BY <3>1, FS_Subset
      <4> HIDE DEF r
      <4> QED BY <2>1, <3>1, <4>1, TotalNumber
    <3> HIDE DEF a, b, c
    <3>4. g[y] + (g[x] + c) = g[x] + (g[y] + c)
      BY <3>3
    <3>5. Total(g, s) = g[x] + b
      BY <2>3, <3>2, <3>4
    <3> QED BY <3>5 DEF b
  <2> QED BY <2>4, <2>5
<1> HIDE DEF G
<1>3. \A s \in SUBSET S : s \in G
  BY <1>1, <1>2, FiniteInduction
<1> QED BY <1>3 DEF G

\* Two sums of the same numbers are equal: m takes the elements of one to those
\* of the other.
LEMMA TotalSame ==
    ASSUME NEW g, NEW S, IsFiniteSet(S), \A x \in S : g[x] \in Nat,
           NEW h, NEW m, \A x, y \in S : m[x] = m[y] => x = y,
           \A x \in S : h[m[x]] = g[x]
    PROVE  Total(g, S) = Total(h, {m[x] : x \in S})
<1> DEFINE Image(s) == {m[x] : x \in s}
           G == {s \in SUBSET S : Total(g, s) = Total(h, Image(s))}
<1>1. {} \in G
  <2>1. Image({}) = {}
    OBVIOUS
  <2>2. Total(g, {}) = 0 /\ Total(h, {}) = 0
    BY FS_EmptySet, TotalPick
  <2> QED BY <2>1, <2>2
<1>2. ASSUME NEW s \in SUBSET S, s # {}, \A x \in s : s \ {x} \in G PROVE s \in G
  <2>1. PICK x \in s : TRUE
    BY <1>2
  <2> DEFINE r == s \ {x}
  <2>2. IsFiniteSet(s) /\ IsFiniteSet(Image(s))
    <3> DEFINE img == Image(s)
               f == [y \in s |-> m[y]]
    <3>1. IsFiniteSet(s)
      BY FS_Subset
    <3>2. f \in Surjection(s, img)
      BY DEF Surjection
    <3> HIDE DEF f, img
    <3>3. IsFiniteSet(img)
      BY <3>1, <3>2, FS_Surjection
    <3> QED BY <3>1, <3>3 DEF img
  <2>3. \A y \in Image(s) : h[y] \in Nat
    OBVIOUS
  <2>4. m[x] \in Image(s) /\ Image(r) = Image(s) \ {m[x]} /\ h[m[x]] = g[x]
    OBVIOUS
  <2>5. Total(g, s) = g[x] + Total(g, r)
    BY <2>1, <2>2, TotalRemove
  <2> DEFINE img == Image(s)
  <2>6. Total(h, img) = h[m[x]] + Total(h, img \ {m[x]})
    <3>1. m[x] \in img /\ IsFiniteSet(img) /\ \A y \in img : h[y] \in Nat
      BY <2>2, <2>3, <2>4
    <3> HIDE DEF img
    <3> QED BY <3>1, TotalRemove
  <2>7. Total(g, r) = Total(h, Image(r))
    BY <1>2, <2>1
  <2> QED BY <2>4, <2>5, <2>6, <2>7
<1> HIDE DEF G
<1>3. \A s \in SUBSET S : s \in G
  BY <1>1, <1>2, FiniteInduction
<1> QED BY <1>3 DEF G

---------------------------------------------------------------------------
(***************************************************************************)
(* Amounts                                                                 *)
(***************************************************************************)
\* The amount of a name is a sum over the entries that were counted for it.
LEMMA AmountSum ==
    ASSUME NEW inventory, NEW read, NEW name, NEW A,
           A = {n \in Counted(inventory, read) : ItemName(read[n]) = name}, IsFiniteSet(A)
    PROVE  ItemAmount(inventory, read, name) = Total([n \in A |-> inventory.held[read[n]]], A)
<1> DEFINE g == [n \in A |-> inventory.held[read[n]]]
           AddsUp(f) == f = [s \in SUBSET A |-> IF s = {} THEN 0
                            ELSE inventory.held[read[Pick(s)]] + f[s \ {Pick(s)}]]
           f == CHOOSE f : AddsUp(f)
<1>1. ItemAmount(inventory, read, name) = f[A]
  BY DEF ItemAmount, MapThenSumSet, MapThenFoldSet, Pick
<1>2. \A s \in SUBSET A : s # {} => g[Pick(s)] = inventory.held[read[Pick(s)]]
  BY Picked
<1> HIDE DEF g
<1>3. \A h : AddsUp(h) <=> Sums(g, A, h)
  BY <1>2 DEF Sums
<1>4. \E h : AddsUp(h)
  BY <1>3, SumsExist
<1> HIDE DEF AddsUp
<1>5. AddsUp(f)
  BY <1>4
<1>6. Sums(g, A, f)
  BY <1>3, <1>5
<1> HIDE DEF f
<1>7. A \in SUBSET A
  OBVIOUS
<1>8. Total(g, A) = f[A]
  BY <1>6, <1>7, TotalOf
<1> QED BY <1>1, <1>8 DEF g

\* Of a store that was read to its end, a name shows all that is held under it.
LEMMA AmountOfName ==
    ASSUME NEW inventory, NEW store, inventory # Null, store # Null,
           IsBag(inventory, store), NEW read \in Seq(DOMAIN inventory.held),
           ToSet(read) = ToSet(store) \ {Null}, NEW name, name # <<>>
    PROVE  ItemAmount(inventory, read, name) =
                Total(inventory.held,
                      {i \in DOMAIN inventory.held : inventory.held[i] > 0 /\ ItemName(i) = name})
<1> DEFINE items == DOMAIN inventory.held
           held == inventory.held
           C == Counted(inventory, read)
           A == {n \in C : ItemName(read[n]) = name}
           B == {i \in items : held[i] > 0 /\ ItemName(i) = name}
           g == [n \in A |-> held[read[n]]]
<1>1. DOMAIN read = 1 .. Len(read) /\ Len(read) \in Nat /\ \A n \in 1 .. Len(read) : read[n] \in items
  OBVIOUS
<1>2. /\ C \in SUBSET (1 .. Len(read))
      /\ \A n \in C : held[read[n]] > 0
      /\ \A n \in C : \A m \in 1 .. n - 1 : ItemIdentity(read[m]) # ItemIdentity(read[n])
  BY <1>1 DEF Counted, FirstOfType
<1>3. IsFiniteSet(A)
  <2> DEFINE n == Len(read)
  <2>1. n \in Int /\ 1 \in Int
    BY <1>1
  <2> HIDE DEF n
  <2>2. IsFiniteSet(1 .. n)
    BY <2>1, FS_Interval
  <2>3. A \in SUBSET (1 .. n)
    BY <1>2 DEF n
  <2> HIDE DEF A
  <2> QED BY <2>2, <2>3, FS_Subset
<1>4. \A i \in items : held[i] \in Nat
  BY DEF IsBag
<1>5. ASSUME NEW x \in A, NEW y \in A, read[x] = read[y] PROVE x = y
  <2>1. x \in C /\ y \in C /\ x \in Nat /\ y \in Nat /\ x >= 1 /\ y >= 1
    BY <1>2
  <2>2. ~(x < y)
    <3>1. x < y => x \in 1 .. y - 1
      BY <2>1
    <3> HIDE DEF A, C
    <3> QED BY <1>2, <1>5, <2>1, <3>1
  <2>3. ~(y < x)
    <3>1. y < x => y \in 1 .. x - 1
      BY <2>1
    <3> HIDE DEF A, C
    <3> QED BY <1>2, <1>5, <2>1, <3>1
  <2> QED BY <2>1, <2>2, <2>3
<1>6. ASSUME NEW i \in B PROVE \E n \in A : read[n] = i
  <2>1. i \in items /\ held[i] > 0 /\ ItemName(i) = name
    OBVIOUS
  <2>2. i \in ToSet(read)
    BY <2>1 DEF IsBag
  <2>3. PICK n \in C : read[n] = i
    BY <2>1, <2>2, HeldIsCounted
  <2>4. n \in A
    BY <2>1, <2>3
  <2> QED BY <2>3, <2>4
<1>7. \A n \in A : read[n] \in B
  BY <1>1, <1>2
<1>8. B = {read[n] : n \in A}
  <2> HIDE DEF A, B
  <2> QED BY <1>6, <1>7
<1>9. ItemAmount(inventory, read, name) = Total(g, A)
  <2>1. A = {n \in Counted(inventory, read) : ItemName(read[n]) = name}
    OBVIOUS
  <2> HIDE DEF A
  <2> QED BY <1>3, <2>1, AmountSum
<1>10. \A n \in A : g[n] \in Nat /\ held[read[n]] = g[n]
  <2>1. \A n \in A : read[n] \in items
    BY <1>7
  <2> HIDE DEF A, items
  <2> QED BY <1>4, <2>1
<1> HIDE DEF A, B, C, g, items, held
<1>11. Total(g, A) = Total(held, {read[n] : n \in A})
  BY <1>3, <1>5, <1>10, TotalSame
<1> QED BY <1>8, <1>9, <1>11 DEF B, items, held

\* The amounts of a bag that is not cut.
LEMMA BagAmounts ==
    ASSUME NEW inventory, NEW store, IsBag(inventory, store),
           BuildItemContainer(inventory, store).available,
           ~BuildItemContainer(inventory, store).truncated
    PROVE  LET part == BuildItemContainer(inventory, store)
               held == inventory.held
           IN \A k \in DOMAIN part.items :
                part.items[k].amount =
                    Total(held, {i \in DOMAIN held :
                                    held[i] > 0 /\ ItemName(i) = part.items[k].name})
<1> DEFINE b == BuildItemContainer(inventory, store)
           read == ReadStore(store)
           names == ItemNames(inventory, read)
           S == {ItemName(read[n]) : n \in Counted(inventory, read)}
<1>1. inventory # Null /\ store # Null
  BY DEF BuildItemContainer, Unavailable
<1>2. /\ b.truncated = (\/ Len(inventory.slots) > MaxInventorySlots
                        \/ Len(store) > MaxInventorySlots
                        \/ Len(names) > MaxInventoryItems)
      /\ b.items = [k \in DOMAIN Cut(names, MaxInventoryItems) |->
                    [name |-> names[k], amount |-> ItemAmount(inventory, read, names[k])]]
  BY <1>1 DEF BuildItemContainer
<1>3. ~(Len(store) > MaxInventorySlots) /\ ~(Len(names) > MaxInventoryItems)
  BY <1>2
<1>4. read \in Seq(DOMAIN inventory.held) /\ ToSet(read) = ToSet(store) \ {Null}
  BY <1>1, <1>3, StoreRead
<1> HIDE DEF b, read
<1>5. names \in Seq(S) /\ ToSet(names) = S
  BY <1>1, <1>4, NamesListed
<1>6. \A x \in S : x # <<>>
  BY DEF Counted, FirstOfType
<1> HIDE DEF S, names
<1>7. Cut(names, MaxInventoryItems) = names
  BY <1>3, <1>5, CutNothing, SectionsAssumption
<1>8. ASSUME NEW k \in DOMAIN b.items
      PROVE  b.items[k].amount =
                    Total(inventory.held, {i \in DOMAIN inventory.held :
                            inventory.held[i] > 0 /\ ItemName(i) = b.items[k].name})
  <2> DEFINE name == b.items[k].name
  <2>1. k \in DOMAIN names /\ name = names[k]
        /\ b.items[k].amount = ItemAmount(inventory, read, names[k])
    BY <1>2, <1>7
  <2>2. name # <<>>
    BY <1>5, <1>6, <2>1
  <2>3. b.items[k].amount = ItemAmount(inventory, read, name)
    BY <2>1
  <2> HIDE DEF name
  <2>4. ItemAmount(inventory, read, name) =
            Total(inventory.held, {i \in DOMAIN inventory.held :
                            inventory.held[i] > 0 /\ ItemName(i) = name})
    BY <1>1, <1>4, <2>2, AmountOfName
  <2> QED BY <2>3, <2>4 DEF name
<1> QED BY <1>8 DEF b

\* The amounts of a snapshot that does not say it has cut them.
LEMMA AmountsOfWorld ==
    ASSUME NEW p \in Platforms, NEW w \in Worlds[p], Capture(w).available,
           Capture(w).body["inventory"] # Null,
           "inventory" \notin ToSet(Capture(w).truncated)
    PROVE  LET part == Capture(w).body["inventory"]
               held == w.player.inventory.held
           IN \A k \in DOMAIN part.items :
                part.items[k].amount =
                    Total(held, {i \in DOMAIN held :
                                    held[i] > 0 /\ ItemName(i) = part.items[k].name})
<1> DEFINE doc == Capture(w)
           s == ReadSections(w)
           value == Value(s, "inventory")
           b == BuildItemContainer(w.player.inventory, w.player.inventoryStore)
<1>1. w.pawn = "ready" /\ w \in UNION {Worlds[q] : q \in Platforms}
  BY NotCaptured
<1>2. /\ \A k \in 1 .. 8 : s[k].value.truncated => s[k].name \in ToSet(doc.truncated)
      /\ doc.truncated = Listed(Truncated(s)) => "inventory" \in ToSet(doc.truncated)
  <2>1. /\ \A k \in 1 .. 8 : s[k].value.truncated => s[k].name \in ToSet(doc.truncated)
        /\ doc.truncated = Listed(Truncated(s)) =>
              {"inventory", "gems", "progression", "objectives"} \subseteq ToSet(doc.truncated)
    BY <1>1, SectionLists
  <2> HIDE DEF doc, s
  <2> QED BY <2>1
<1>3. doc.body["inventory"] = value
  <2>1. "inventory" \in Nested \cup {"inventory", "gems"}
    OBVIOUS
  <2>2. doc.body["inventory"] = value \/ doc.truncated = Listed(Truncated(s))
    BY <1>1, <2>1, CapturedPart
  <2> HIDE DEF doc, s, value
  <2> QED BY <1>2, <2>2 DEF doc
<1>4. /\ 1 \in 1 .. 8 /\ s[1].name = "inventory" /\ s[1].value = b
  BY DEF ReadSections, BuildInventory
<1>5. value = IF b.available THEN b ELSE Null
  <2>1. "inventory" \in Nested \cup {"inventory", "gems"} /\ Place["inventory"] = 1
    BY DEF Place
  <2> HIDE DEF s
  <2>2. value = IF s[1].value.available THEN s[1].value ELSE Null
    BY <2>1, ValueRead DEF s
  <2> QED BY <1>4, <2>2
<1> HIDE DEF doc, s, value, b
<1>6. b.available /\ value = b
  BY <1>3, <1>5 DEF doc
<1>7. ~b.truncated
  BY <1>2, <1>4 DEF doc
<1>8. IsBag(w.player.inventory, w.player.inventoryStore)
  BY <1>1, WorldsAssumption
<1> QED BY <1>3, <1>6, <1>7, <1>8, BagAmounts DEF b, doc

---------------------------------------------------------------------------
(***************************************************************************)
(* The limits of the plugin and of the backend                             *)
(***************************************************************************)
\* The length of a snapshot is a number.
LEMMA SizeNumber ==
    ASSUME NEW w \in UNION {Worlds[q] : q \in Platforms},
           NEW parts \in SUBSET (Core \cup Nested \cup {"inventory", "gems"})
    PROVE  Bytes(w, parts) \in Nat
<1> DEFINE All == Core \cup Nested \cup {"inventory", "gems"}
<1>1. \A part \in All : w.size[part] \in Nat
  BY WorldsAssumption
<1>2. IsFiniteSet(parts)
  <2>1. IsFiniteSet({})
    BY FS_EmptySet
  <2> DEFINE a == {"vitals", "equipment"}
             b == {"session", "progression", "objectives"}
             c == {"environment", "target", "base"}
             d == {"inventory", "gems"}
  <2>2. IsFiniteSet(a) /\ IsFiniteSet(b) /\ IsFiniteSet(c) /\ IsFiniteSet(d)
    <3>1. ASSUME NEW x, NEW y, NEW z PROVE IsFiniteSet({x, y, z})
      <4>1. IsFiniteSet({x})
        BY FS_Singleton
      <4> DEFINE two == {x, y}
                 one == {x}
      <4>2. two = one \cup {y} /\ {x, y, z} = two \cup {z}
        OBVIOUS
      <4> HIDE DEF one, two
      <4>3. IsFiniteSet(two)
        BY <4>1, <4>2, FS_AddElement DEF one
      <4> QED BY <4>2, <4>3, FS_AddElement
    <3>2. a = {"vitals", "equipment", "equipment"} /\ d = {"inventory", "gems", "gems"}
      OBVIOUS
    <3> QED BY <3>1, <3>2
  <2>3. All = (a \cup b) \cup (c \cup d)
    BY DEF Core, Nested
  <2> HIDE DEF a, b, c, d, All
  <2>4. IsFiniteSet(a \cup b) /\ IsFiniteSet(c \cup d)
    BY <2>2, FS_Union
  <2>5. IsFiniteSet(All)
    BY <2>3, <2>4, FS_Union
  <2> QED BY <2>5, FS_Subset DEF All
<1>3. \A part \in parts : w.size[part] \in Nat
  BY <1>1
<1>4. Bytes(w, parts) = Total(w.size, parts)
  BY DEF Bytes, Total
<1> QED BY <1>2, <1>3, <1>4, TotalNumber

\* A snapshot of a world in which there is a character to play is not larger
\* than the limit.
LEMMA SizeOfWorld ==
    ASSUME NEW w \in UNION {Worlds[q] : q \in Platforms}
    PROVE  Capture(w).size \in Nat /\ Capture(w).size <= MaxSnapshotBytes
<1> DEFINE doc == Capture(w)
           whole == Whole(w, ReadSections(w))
           All == Core \cup Nested \cup {"inventory", "gems"}
<1>1. CASE w.pawn # "ready"
  <2>1. doc.size = 0
    BY <1>1, NotCaptured
  <2> QED BY <2>1, SnapshotAssumption
<1>2. CASE w.pawn = "ready"
  <2>1. Fits(w, Prune(whole))
    BY <1>2, RoomAssumption
  <2>2. /\ doc.body = whole \/ doc.body = Prune(whole)
        /\ doc.size = Size(w, doc.body) /\ doc.size <= MaxSnapshotBytes
    BY <1>2, <2>1, Captured
  <2>3. DOMAIN whole = All
    BY DEF Whole
  <2> HIDE DEF doc, whole
  <2>4. DOMAIN doc.body = All
    BY <2>2, <2>3 DEF Prune
  <2> DEFINE parts == {part \in DOMAIN doc.body : doc.body[part] # Null}
  <2>5. parts \in SUBSET All
    BY <2>4
  <2>6. doc.size = Bytes(w, parts)
    BY <2>2 DEF Size
  <2> HIDE DEF parts, All
  <2>7. Bytes(w, parts) \in Nat
    BY <2>5, SizeNumber DEF All
  <2> QED BY <2>2, <2>6, <2>7 DEF doc
<1> QED BY <1>1, <1>2

\* A list of items has as many entries as names were kept.
LEMMA BagLength ==
    ASSUME NEW inventory, NEW store, IsBag(inventory, store),
           BuildItemContainer(inventory, store).available
    PROVE  Len(BuildItemContainer(inventory, store).items) <= MaxItems
<1> DEFINE b == BuildItemContainer(inventory, store)
           read == ReadStore(store)
           names == ItemNames(inventory, read)
           S == {ItemName(read[n]) : n \in Counted(inventory, read)}
           some == Cut(names, MaxInventoryItems)
           entry(k) == [name |-> names[k], amount |-> ItemAmount(inventory, read, names[k])]
<1>1. inventory # Null /\ store # Null
  BY DEF BuildItemContainer, Unavailable
<1>2. b.items = [k \in DOMAIN some |-> entry(k)]
  BY <1>1 DEF BuildItemContainer
<1>3. read \in Seq(DOMAIN inventory.held)
  BY <1>1, StoreRead
<1> HIDE DEF b, read
<1>4. names \in Seq(S)
  BY <1>1, <1>3, NamesListed
<1> HIDE DEF S, names
<1>5. MaxInventoryItems \in Nat /\ MaxItems \in Nat /\ MaxInventoryItems <= MaxItems
  BY SectionsAssumption, SnapshotAssumption
<1>6. some \in Seq(S) /\ Len(some) <= MaxInventoryItems
  BY <1>4, <1>5, CutPart
<1> HIDE DEF some, entry
<1>7. Len(some) \in Nat /\ DOMAIN some = 1 .. Len(some)
  BY <1>6
<1>8. Len(b.items) = Len(some)
  BY <1>2, <1>7
<1>9. Len(b.items) <= MaxItems
  BY <1>5, <1>6, <1>7, <1>8
<1> QED BY <1>9 DEF b

\* The list of what the player interacts with has at most as many entries as
\* were read.
LEMMA TargetLength ==
    ASSUME NEW player, NEW controller, IsArray(controller.items),
           "items" \in DOMAIN BuildTarget(player, controller)
    PROVE  Len(BuildTarget(player, controller).items) <= MaxItems
<1> DEFINE items == controller.items
           S == ToSet(items)
           candidates == <<controller.interaction, controller.interactable,
                           controller.building, player.looking, player.aiming>>
           first == SelectInSeq(candidates, LAMBDA t : t # Null)
           b == BuildTarget(player, controller)
           T == {i \in S : ItemName(i) # <<>>}
           some == Cut(items, MaxInteractedItems)
<1>1. first # 0
  BY DEF BuildTarget
<1>2. b.items = IF controller.interaction = candidates[first]
                THEN Keep(some, LAMBDA item : ItemName(item) # <<>>) ELSE <<>>
  BY <1>1 DEF BuildTarget
<1>3. MaxInteractedItems \in Nat /\ MaxItems \in Nat /\ MaxInteractedItems <= MaxItems
  BY SectionsAssumption, SnapshotAssumption
<1>4. items \in Seq(S)
  BY DEF IsArray
<1> HIDE DEF b, candidates, first, S
<1>5. some \in Seq(S) /\ Len(some) <= MaxInteractedItems
  BY <1>3, <1>4, CutPart
<1> HIDE DEF some
<1>6. Keep(some, LAMBDA item : ItemName(item) # <<>>) = Selected(some, T)
  <2> DEFINE f == [n \in DOMAIN some |-> IF ItemName(some[n]) # <<>> THEN <<some[n]>> ELSE <<>>]
             g == [n \in DOMAIN some |-> IF some[n] \in T THEN <<some[n]>> ELSE <<>>]
  <2>1. \A n \in DOMAIN some : some[n] \in S
    BY <1>5
  <2>2. f = g
    BY <2>1
  <2>3. Keep(some, LAMBDA item : ItemName(item) # <<>>) = FlattenSeq(f)
    BY DEF Keep
  <2>4. Selected(some, T) = FlattenSeq(g)
    BY DEF Selected
  <2> QED BY <2>2, <2>3, <2>4
<1> DEFINE kept == Selected(some, T)
<1>7. kept \in Seq(S) /\ Len(kept) <= Len(some)
  BY <1>5, SelectedRange
<1> HIDE DEF kept, T
<1>8. Len(kept) <= MaxItems /\ Len(<<>>) <= MaxItems
  <2>1. Len(kept) \in Nat /\ Len(some) \in Nat
    BY <1>5, <1>7
  <2>2. Len(<<>>) = 0
    OBVIOUS
  <2> QED BY <1>3, <1>5, <1>7, <2>1, <2>2
<1>9. b.items = kept \/ b.items = <<>>
  BY <1>2, <1>6 DEF kept
<1>10. Len(b.items) <= MaxItems
  BY <1>8, <1>9
<1> QED BY <1>10 DEF b

\* No list of items of a snapshot is longer than the backend accepts.
LEMMA ListsOfWorld ==
    ASSUME NEW w \in UNION {Worlds[q] : q \in Platforms}
    PROVE  \A list \in ItemLists(Capture(w).body) : Len(list) <= MaxItems
<1> DEFINE body == Capture(w).body
           s == ReadSections(w)
<1> SUFFICES ASSUME NEW part \in {"inventory", "gems", "target"}, part \in DOMAIN body,
                    body[part] # Null, "items" \in DOMAIN body[part]
             PROVE  Len(body[part].items) <= MaxItems
  BY DEF ItemLists
<1>1. w.pawn = "ready"
  <2>1. w.pawn # "ready" => body = <<>>
    BY NotCaptured
  <2>2. DOMAIN <<>> = {}
    OBVIOUS
  <2> HIDE DEF body
  <2> QED BY <2>1, <2>2
<1>2. part \in Nested \cup {"inventory", "gems"}
  BY DEF Nested
<1>3. body[part] = Value(s, part)
  BY <1>1, <1>2, CapturedPart
<1>4. Value(s, part) = IF s[Place[part]].value.available THEN s[Place[part]].value ELSE Null
  BY <1>2, ValueRead
<1>5. /\ IsBag(w.player.inventory, w.player.inventoryStore)
      /\ IsBag(w.player.gems, w.player.gemStore) /\ IsArray(w.controller.items)
  BY WorldsAssumption
<1>6. /\ s[1].value = BuildInventory(w.player) /\ s[2].value = BuildGems(w.player)
      /\ s[5].value = BuildTarget(w.player, w.controller)
  BY SectionsRead
<1>7. Place["inventory"] = 1 /\ Place["gems"] = 2 /\ Place["target"] = 5
  BY Places8
<1> HIDE DEF body, s
<1>8. s[Place[part]].value.available /\ body[part] = s[Place[part]].value
  BY <1>3, <1>4
<1>9. CASE part = "inventory"
  BY <1>5, <1>6, <1>7, <1>8, <1>9, BagLength DEF BuildInventory
<1>10. CASE part = "gems"
  BY <1>5, <1>6, <1>7, <1>8, <1>10, BagLength DEF BuildGems
<1>11. CASE part = "target"
  BY <1>5, <1>6, <1>7, <1>8, <1>11, TargetLength
<1> QED BY <1>9, <1>10, <1>11

\* The backend accepts every snapshot that is not from its future, and there is
\* room for it in the context.
LEMMA SnapshotAccepted ==
    ASSUME NEW w \in UNION {Worlds[q] : q \in Platforms}, NEW at \in Nat, NEW t \in Nat, at <= t
    PROVE  /\ ValidateLiveContext(Capture(w), at, t)
           /\ Capture(w).size + LabelBytes <= MaxContextBytes
<1> DEFINE doc == Capture(w)
<1>1. doc.size \in Nat /\ doc.size <= MaxSnapshotBytes
  BY SizeOfWorld
<1>2. \A list \in ItemLists(doc.body) : Len(list) <= MaxItems
  BY ListsOfWorld
<1>3. /\ doc.missing \in NameLists /\ doc.truncated \in NameLists
      /\ doc.partial = (doc.missing # <<>> \/ doc.truncated # <<>>)
  <2>1. CASE w.pawn = "ready"
    BY <2>1, SectionLists
  <2>2. CASE w.pawn # "ready"
    <3>1. doc.missing = AllSections /\ doc.truncated = <<>> /\ doc.partial = TRUE
      BY <2>2, NotCaptured
    <3>2. AllSections \in NameLists
      BY EveryName
    <3>3. AllSections # <<>>
      BY DEF AllSections
    <3> HIDE DEF doc
    <3> QED BY <3>1, <3>2, <3>3, NoNames
  <2> QED BY <2>1, <2>2
<1> HIDE DEF doc
<1>4. ValidSectionList(doc.missing) /\ ValidSectionList(doc.truncated)
  BY <1>3, NamesAreValid
<1>5. /\ doc.size + LabelBytes <= MaxNormalizedBytes
      /\ doc.size + LabelBytes <= MaxContextBytes
      /\ at <= t + FutureTolerance
  BY <1>1, SnapshotAssumption, PromptAssumption DEF LabelBytes, FutureTolerance
<1>6. ValidateLiveContext(doc, at, t)
  BY <1>1, <1>2, <1>3, <1>4, <1>5 DEF ValidateLiveContext
<1> QED BY <1>5, <1>6 DEF doc
===============================================================================
