------------------------------- MODULE Lists -------------------------------
(***************************************************************************)
(* Lists as the loops of the plugin and the backend make them: the first     *)
(* entries of an array, the entries that pass a test, a std::map in the      *)
(* order of its keys, an array that was sorted.                             *)
(***************************************************************************)
EXTENDS Naturals, Sequences, FiniteSets, SequencesExt

\* The loops read at most this many entries of an array.
Cut(s, n) == SubSeq(s, 1, IF Len(s) > n THEN n ELSE Len(s))

\* A loop that skips the entries that do not pass a test.
Keep(s, Test(_)) ==
    FlattenSeq([i \in DOMAIN s |-> IF Test(s[i]) THEN <<s[i]>> ELSE <<>>])

\* The elements of a finite set, each after all that are below it.
InOrder(S, Below(_, _)) ==
    [k \in 1 .. Cardinality(S) |->
        CHOOSE x \in S : Cardinality({y \in S : Below(y, x)}) = k - 1]

\* Elements of which none is below the other may come in any order: here theirs.
Sorted(s, Below(_, _)) ==
    LET before(i, j) == Below(s[i], s[j]) \/ (~Below(s[j], s[i]) /\ i < j)
        places == InOrder(DOMAIN s, before)
    IN [k \in DOMAIN s |-> s[places[k]]]
=============================================================================
