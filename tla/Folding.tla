------------------------------ MODULE Folding ------------------------------
(***************************************************************************)
(* Induction over lists.  What a loop computes is a fold (FoldLeft of the   *)
(* community modules) with the body of the loop as its operator; here are    *)
(* the facts about folds for any operator, to be instantiated with it.      *)
(*                                                                         *)
(* Induction is stated for sets of numbers, and follows from the order of   *)
(* the natural numbers being well founded.                                  *)
(***************************************************************************)
EXTENDS Integers, SequencesExt, SequenceTheorems, WellFoundedInduction, TLAPS

CONSTANT op(_, _)           \* the body of the loop

---------------------------------------------------------------------------
(***************************************************************************)
(* Numbers                                                                 *)
(***************************************************************************)
\* A set of numbers that is not empty has an element with none below it.
LEMMA LeastElement == ASSUME NEW T \in SUBSET Nat, T # {}
                      PROVE  \E x \in T : \A y \in T : ~(y < x)
<1>1. PICK x \in T : \A y \in T : ~(<<y, x>> \in OpToRel(<, Nat))
  BY NatLessThanWellFounded, WFMin
<1>2. ASSUME NEW y \in T, y < x PROVE FALSE
  BY <1>1, <1>2 DEF OpToRel
<1> QED BY <1>2

\* A set that has 0, and with a number the next, has all of them.
LEMMA SetInduction ==
    ASSUME NEW S, 0 \in S, \A n \in Nat : n \in S => n + 1 \in S
    PROVE  Nat \subseteq S
<1> SUFFICES ASSUME Nat \ S # {} PROVE FALSE
  OBVIOUS
<1>1. PICK x \in Nat \ S : \A y \in Nat \ S : ~(y < x)
  BY LeastElement
<1>2. x - 1 \in Nat /\ x - 1 < x /\ x = (x - 1) + 1
  BY <1>1
<1> QED BY <1>1, <1>2

\* The greatest element of a set is its maximum.
LEMMA MaxTop == ASSUME NEW S \in SUBSET Int, NEW m \in S, \A y \in S : y <= m
                PROVE  Max(S) = m
<1>1. \A y \in S : m >= y
  OBVIOUS
<1>2. Max(S) \in S /\ \A y \in S : Max(S) >= y
  BY <1>1, Zenon DEF Max
<1>3. Max(S) <= m /\ m <= Max(S) /\ Max(S) \in Int
  BY <1>2
<1> QED BY <1>3

\* The least element of a set is its minimum.
LEMMA MinBottom == ASSUME NEW S \in SUBSET Int, NEW m \in S, \A y \in S : m <= y
                   PROVE  Min(S) = m
<1>1. Min(S) \in S /\ \A y \in S : Min(S) <= y
  BY Zenon DEF Min
<1>2. Min(S) <= m /\ m <= Min(S) /\ Min(S) \in Int
  BY <1>1
<1> QED BY <1>2

\* A set of numbers that are not above a bound has a greatest element.
LEMMA MaxExists ==
    ASSUME NEW S \in SUBSET Int, S # {}, NEW n \in Int, \A y \in S : y <= n
    PROVE  Max(S) \in S /\ \A y \in S : y <= Max(S)
<1> DEFINE T == {n - y : y \in S}
<1>1. T \in SUBSET Nat /\ T # {}
  <2>1. \A y \in S : n - y \in Nat
    OBVIOUS
  <2>2. PICK y \in S : TRUE
    OBVIOUS
  <2>3. n - y \in T
    OBVIOUS
  <2> QED BY <2>1, <2>3
<1>2. PICK x \in T : \A y \in T : ~(y < x)
  BY <1>1, LeastElement
<1>3. PICK m \in S : x = n - m
  OBVIOUS
<1>4. ASSUME NEW y \in S PROVE y <= m
  <2>1. n - y \in T /\ y \in Int /\ m \in Int
    OBVIOUS
  <2>2. ~(n - y < n - m)
    BY <1>2, <1>3, <2>1
  <2> QED BY <2>1, <2>2
<1>5. Max(S) = m
  BY <1>4, MaxTop
<1> QED BY <1>4, <1>5

---------------------------------------------------------------------------
(***************************************************************************)
(* The accumulators of a loop                                              *)
(***************************************************************************)
\* f[k] is what the loop has computed after k elements.
Series(b, seq, n, f) ==
    f[0] = b /\ \A k \in 1 .. n : f[k] = op(f[k - 1], seq[k])

\* The recursion by which the community modules define a fold.
Iter(b, seq, n, f) ==
    f = [s \in SUBSET (1 .. n) |->
            IF s = {} THEN b ELSE op(f[s \ {Max(s)}], seq[Max(s)])]

\* There is a function that satisfies it.
LEMMA IterExists ==
    ASSUME NEW b, NEW seq
    PROVE  \A n \in Nat : \E f : Iter(b, seq, n, f)
<1> DEFINE S == {n \in Nat : \E f : Iter(b, seq, n, f)}
<1>1. 0 \in S
  <2> DEFINE J == [s \in SUBSET (1 .. 0) |-> b]
  <2>1. 1 .. 0 = {}
    OBVIOUS
  <2>2. Iter(b, seq, 0, J)
    BY <2>1 DEF Iter
  <2> HIDE DEF J
  <2> QED BY <2>2
<1>2. ASSUME NEW n \in Nat, n \in S PROVE n + 1 \in S
  <2>1. PICK f : Iter(b, seq, n, f)
    BY <1>2
  <2> DEFINE g == [s \in SUBSET (1 .. n + 1) |->
                    IF n + 1 \in s THEN op(f[s \ {n + 1}], seq[n + 1]) ELSE f[s]]
  <2>2. ASSUME NEW s \in SUBSET (1 .. n + 1)
        PROVE  g[s] = IF s = {} THEN b ELSE op(g[s \ {Max(s)}], seq[Max(s)])
    <3>1. CASE n + 1 \in s
      <4>1. Max(s) = n + 1
        BY <3>1, MaxTop
      <4>2. s \ {n + 1} \in SUBSET (1 .. n + 1) /\ n + 1 \notin s \ {n + 1}
        OBVIOUS
      <4>3. g[s \ {n + 1}] = f[s \ {n + 1}]
        BY <4>2
      <4>4. g[s] = op(f[s \ {n + 1}], seq[n + 1])
        BY <3>1
      <4> HIDE DEF g
      <4> QED BY <3>1, <4>1, <4>3, <4>4
    <3>2. CASE n + 1 \notin s
      <4>1. 1 .. n + 1 = (1 .. n) \cup {n + 1}
        OBVIOUS
      <4>2. s \in SUBSET (1 .. n) /\ s \ {Max(s)} \in SUBSET (1 .. n)
        BY <3>2, <4>1, Zenon
      <4>3. s \ {Max(s)} \in SUBSET (1 .. n + 1) /\ n + 1 \notin s \ {Max(s)}
        BY <4>2
      <4>4. g[s] = f[s] /\ g[s \ {Max(s)}] = f[s \ {Max(s)}]
        BY <3>2, <4>3
      <4>5. f[s] = IF s = {} THEN b ELSE op(f[s \ {Max(s)}], seq[Max(s)])
        BY <2>1, <4>2 DEF Iter
      <4> HIDE DEF g
      <4> QED BY <4>4, <4>5
    <3> QED BY <3>1, <3>2
  <2>3. Iter(b, seq, n + 1, g)
    <3>1. g = [s \in SUBSET (1 .. n + 1) |-> g[s]]
      OBVIOUS
    <3> HIDE DEF g
    <3> QED BY <2>2, <3>1 DEF Iter
  <2> HIDE DEF g
  <2> QED BY <2>3
<1> HIDE DEF S
<1>3. Nat \subseteq S
  BY <1>1, <1>2, SetInduction
<1> QED BY <1>3 DEF S

Fold(b, seq) == FoldLeft(op, b, seq)

\* A fold is the last of its accumulators.
LEMMA FoldHasSeries ==
    ASSUME NEW b, NEW seq, NEW n \in Nat, DOMAIN seq = 1 .. n
    PROVE  \E f : DOMAIN f = 0 .. n /\ Series(b, seq, n, f) /\ Fold(b, seq) = f[n]
<1> DEFINE I == CHOOSE iter : Iter(b, seq, n, iter)
<1>1. Fold(b, seq) = I[1 .. n]
  BY DEF Fold, FoldLeft, MapThenFoldSet, Iter
<1>2. Iter(b, seq, n, I)
  BY IterExists
<1> HIDE DEF I
<1> DEFINE f == [k \in 0 .. n |-> I[1 .. k]]
<1>3. f[0] = b
  <2>1. 1 .. 0 = {} /\ {} \in SUBSET (1 .. n)
    OBVIOUS
  <2>2. I[{}] = b
    BY <1>2, <2>1 DEF Iter
  <2> QED BY <2>1, <2>2
<1>4. ASSUME NEW k \in 1 .. n PROVE f[k] = op(f[k - 1], seq[k])
  <2>1. Max(1 .. k) = k
    <3>1. 1 .. k \in SUBSET Int /\ k \in 1 .. k /\ \A y \in 1 .. k : y <= k
      OBVIOUS
    <3> QED BY <3>1, MaxTop
  <2>2. (1 .. k) \ {k} = 1 .. k - 1 /\ 1 .. k \in SUBSET (1 .. n) /\ 1 .. k # {}
    OBVIOUS
  <2>3. I[1 .. k] = op(I[1 .. k - 1], seq[k])
    BY <1>2, <2>1, <2>2 DEF Iter
  <2> QED BY <2>3
<1>5. DOMAIN f = 0 .. n /\ Fold(b, seq) = f[n]
  BY <1>1
<1> HIDE DEF f
<1> QED BY <1>3, <1>4, <1>5 DEF Series

\* Over lists that agree, accumulators agree.
LEMMA SeriesUnique ==
    ASSUME NEW b, NEW s, NEW t, NEW n \in Nat, \A k \in 1 .. n : s[k] = t[k],
           NEW f, NEW g, Series(b, s, n, f), Series(b, t, n, g)
    PROVE  f[n] = g[n]
<1> DEFINE S == {k \in Nat : k <= n => f[k] = g[k]}
<1>1. 0 \in S
  BY DEF Series
<1>2. ASSUME NEW k \in Nat, k \in S PROVE k + 1 \in S
  <2>1. CASE k + 1 <= n
    <3>1. k + 1 \in 1 .. n /\ (k + 1) - 1 = k /\ f[k] = g[k]
      BY <1>2, <2>1
    <3>2. f[k + 1] = op(f[k], s[k + 1]) /\ g[k + 1] = op(g[k], t[k + 1])
      BY <3>1 DEF Series
    <3> QED BY <3>1, <3>2
  <2>2. CASE ~(k + 1 <= n)
    BY <2>2
  <2> QED BY <2>1, <2>2
<1> HIDE DEF S
<1>3. Nat \subseteq S
  BY <1>1, <1>2, SetInduction
<1> QED BY <1>3 DEF S

\* Whatever computes the accumulators computes the fold.
LEMMA FoldOfSeries ==
    ASSUME NEW b, NEW seq, NEW n \in Nat, DOMAIN seq = 1 .. n, NEW f, Series(b, seq, n, f)
    PROVE  Fold(b, seq) = f[n]
BY FoldHasSeries, SeriesUnique

---------------------------------------------------------------------------
(***************************************************************************)
(* Folds                                                                   *)
(***************************************************************************)
\* A loop over nothing changes nothing.
LEMMA FoldEmpty == ASSUME NEW b PROVE Fold(b, <<>>) = b
<1>1. DOMAIN <<>> = 1 .. 0
  OBVIOUS
<1>2. PICK f : Series(b, <<>>, 0, f) /\ Fold(b, <<>>) = f[0]
  BY <1>1, FoldHasSeries
<1> QED BY <1>2 DEF Series

\* A loop over two lists, one after the other.
LEMMA FoldConcat ==
    ASSUME NEW b, NEW S, NEW s \in Seq(S), NEW t \in Seq(S)
    PROVE  Fold(b, s \o t) = Fold(Fold(b, s), t)
<1> DEFINE m == Len(s)
           n == Len(t)
           u == s \o t
<1>1. /\ m \in Nat /\ n \in Nat /\ m + n \in Nat
      /\ DOMAIN s = 1 .. m /\ DOMAIN t = 1 .. n /\ DOMAIN u = 1 .. m + n
      /\ \A k \in 1 .. m : u[k] = s[k]
      /\ \A k \in 1 .. n : u[m + k] = t[k]
  OBVIOUS
<1> HIDE DEF m, n, u
<1>2. PICK f : Series(b, u, m + n, f) /\ Fold(b, u) = f[m + n]
  BY <1>1, FoldHasSeries
<1>3. Fold(b, s) = f[m]
  <2>1. \A k \in 1 .. m : f[k] = op(f[k - 1], s[k])
    BY <1>1, <1>2 DEF Series
  <2>2. Series(b, s, m, f)
    BY <1>2, <2>1 DEF Series
  <2> QED BY <1>1, <2>2, FoldOfSeries
<1> DEFINE g == [k \in 0 .. n |-> f[m + k]]
<1>4. Series(f[m], t, n, g)
  <2>1. g[0] = f[m]
    BY <1>1
  <2>2. ASSUME NEW k \in 1 .. n PROVE g[k] = op(g[k - 1], t[k])
    <3>1. m + k \in 1 .. m + n /\ (m + k) - 1 = m + (k - 1)
      BY <1>1
    <3>2. f[m + k] = op(f[m + (k - 1)], t[k])
      BY <1>1, <1>2, <3>1 DEF Series
    <3>3. g[k] = f[m + k] /\ g[k - 1] = f[m + (k - 1)]
      BY <1>1
    <3> QED BY <3>2, <3>3
  <2> HIDE DEF g
  <2> QED BY <2>1, <2>2 DEF Series
<1>5. g[n] = f[m + n]
  BY <1>1
<1> HIDE DEF g
<1>6. Fold(f[m], t) = g[n]
  BY <1>1, <1>4, FoldOfSeries
<1> QED BY <1>2, <1>3, <1>5, <1>6 DEF u

\* A loop over one element.
LEMMA FoldOne == ASSUME NEW b, NEW x PROVE Fold(b, <<x>>) = op(b, x)
<1> DEFINE one == <<x>>
<1>1. DOMAIN one = 1 .. 1 /\ one[1] = x
  OBVIOUS
<1>2. 1 \in Nat /\ 1 \in 1 .. 1 /\ 1 - 1 = 0
  OBVIOUS
<1> HIDE DEF one
<1>3. PICK f : Series(b, one, 1, f) /\ Fold(b, one) = f[1]
  BY <1>1, <1>2, FoldHasSeries
<1> QED BY <1>1, <1>2, <1>3 DEF Series, one

\* One more element is one more round.
LEMMA FoldAppend ==
    ASSUME NEW b, NEW S, NEW s \in Seq(S), NEW x \in S
    PROVE  Fold(b, Append(s, x)) = op(Fold(b, s), x)
<1> DEFINE one == <<x>>
<1>1. Append(s, x) = s \o one
  BY AppendIsConcat
<1>2. one \in Seq(S)
  OBVIOUS
<1>3. Fold(Fold(b, s), one) = op(Fold(b, s), x)
  BY FoldOne
<1> HIDE DEF one
<1>4. Fold(b, s \o one) = Fold(Fold(b, s), one)
  BY <1>2, FoldConcat
<1> QED BY <1>1, <1>3, <1>4

\* What holds before a loop and is kept by each round holds after it; R[k] is
\* what may have been computed after k elements.
LEMMA FoldKeeps ==
    ASSUME NEW b, NEW seq, NEW n \in Nat, DOMAIN seq = 1 .. n, NEW R,
           b \in R[0], \A k \in 1 .. n : \A acc \in R[k - 1] : op(acc, seq[k]) \in R[k]
    PROVE  Fold(b, seq) \in R[n]
<1>1. PICK f : Series(b, seq, n, f) /\ Fold(b, seq) = f[n]
  BY FoldHasSeries
<1> DEFINE S == {k \in Nat : k <= n => f[k] \in R[k]}
<1>2. 0 \in S
  BY <1>1 DEF Series
<1>3. ASSUME NEW k \in Nat, k \in S PROVE k + 1 \in S
  <2>1. CASE k + 1 <= n
    <3>1. k + 1 \in 1 .. n /\ (k + 1) - 1 = k /\ f[k] \in R[k]
      BY <1>3, <2>1
    <3>2. f[k + 1] = op(f[k], seq[k + 1])
      BY <1>1, <3>1 DEF Series
    <3>3. op(f[k], seq[k + 1]) \in R[k + 1]
      BY <3>1
    <3> QED BY <3>2, <3>3
  <2>2. CASE ~(k + 1 <= n)
    BY <2>2
  <2> QED BY <2>1, <2>2
<1> HIDE DEF S
<1>4. Nat \subseteq S
  BY <1>2, <1>3, SetInduction
<1> QED BY <1>1, <1>4 DEF S

\* The same for a set that does not change.
LEMMA FoldStays ==
    ASSUME NEW b, NEW seq, NEW n \in Nat, DOMAIN seq = 1 .. n, NEW P,
           b \in P, \A k \in 1 .. n : \A acc \in P : op(acc, seq[k]) \in P
    PROVE  Fold(b, seq) \in P
<1> DEFINE R == [k \in 0 .. n |-> P]
<1>1. b \in R[0] /\ R[n] = P
  OBVIOUS
<1>2. \A k \in 1 .. n : \A acc \in R[k - 1] : op(acc, seq[k]) \in R[k]
  OBVIOUS
<1> HIDE DEF R
<1> QED BY <1>1, <1>2, FoldKeeps
=============================================================================
