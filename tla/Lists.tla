-------------------------------- MODULE Lists --------------------------------
(***************************************************************************)
(* The few operators of SequencesExt that the data types need, under their  *)
(* names there.  DataTypes instantiates six modules that extend this one;   *)
(* with the hundred and fifty definitions of SequencesExt in each, a proof  *)
(* about them takes three times as long.                                    *)
(***************************************************************************)
EXTENDS Integers, Sequences, FiniteSets, Functions

Max(S) == CHOOSE x \in S : \A y \in S : x >= y
Min(S) == CHOOSE x \in S : \A y \in S : x <= y

Last(s)  == s[Len(s)]
Front(s) == SubSeq(s, 1, Len(s) - 1)

Reverse(s) == [i \in 1 .. Len(s) |-> s[(Len(s) - i) + 1]]

\* The sequences in seqs, one after the other.
FlattenSeq(seqs) ==
  LET flat[n \in 1 .. Len(seqs)] == IF n = 1 THEN seqs[n] ELSE flat[n - 1] \o seqs[n]
  IN  IF Len(seqs) = 0 THEN seqs ELSE flat[Len(seqs)]

RemoveAt(s, i) == SubSeq(s, 1, i - 1) \o SubSeq(s, i + 1, Len(s))

\* x as the i-th element.
InsertAt(s, i, x) == SubSeq(s, 1, i - 1) \o <<x>> \o SubSeq(s, i, Len(s))

IsPrefix(s, t) == Len(s) <= Len(t) /\ s = SubSeq(t, 1, Len(s))

\* The elements of s in an order that respects Op.
SortSeq(s, Op(_, _)) ==
  LET p == CHOOSE p \in [1 .. Len(s) -> 1 .. Len(s)] :
             /\ IsInjective(p)
             /\ \A i, j \in 1 .. Len(s) : i < j => Op(s[p[i]], s[p[j]])
  IN  [i \in 1 .. Len(s) |-> s[p[i]]]

\* The first index of an element that passes, or 0.
SelectInSeq(s, Passes(_)) ==
  LET found == {i \in 1 .. Len(s) : Passes(s[i])} IN IF found = {} THEN 0 ELSE Min(found)

RemoveFirst(s, x) ==
  LET Is(y) == y = x IN IF \E i \in 1 .. Len(s) : s[i] = x THEN RemoveAt(s, SelectInSeq(s, Is)) ELSE s

\* The elements of a set in some order.
SetToSeq(S) == CHOOSE s \in [1 .. Cardinality(S) -> S] : IsInjective(s)

\* Step(...Step(Step(base, s[1]), s[2])..., s[Len(s)])
FoldLeft(Step(_, _), base, s) ==
  MapThenFoldSet(LAMBDA x, acc : Step(acc, x), base, LAMBDA i : s[i], LAMBDA I : Max(I), DOMAIN s)
==============================================================================
