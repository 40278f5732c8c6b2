----------------------------- MODULE DataTypesMC -----------------------------
(* DataTypes for TLC. *)
EXTENDS DataTypes, TLC

\* No order of keys matters to containers, ranges and streams, and none of consumers.
Alike == Permutations(Key) \cup Permutations(Consumer)

ChosenContainers == {{}, {"overwrite", "misplaced", "bad source", "bad score"}}

ChosenSeries == {{}, {"replaced"}, {"deleted", "retyped"}}
ChosenRules  == {[agg |-> "sum", width |-> 2], [agg |-> "max", width |-> 2]}

\* Two items that look the same and two that share a bucket only.
ChosenFingerprint(it) == <<1, 1, 2, 3>>[it]
ChosenHash(it)        == <<{2}, {0, 2}, {1, 2}, {0, 2}>>[it]
ChosenHashOf(fp)      == <<{0, 3}, {1, 2}, {0, 1, 2}>>[fp]
EitherWay             == BOOLEAN

\* A PREFIX as clients write it, and one that names the database and some more.
ChosenPrefixes == {{}, {1}}

\* Term 2 is written with term 1 in it.
ChosenIncludes(t, u) == t >= u
ChosenDocuments ==
  {[json |-> TRUE, terms |-> {1}, price |-> 1], [json |-> TRUE, terms |-> {1, 2}, price |-> 2],
   [json |-> TRUE, terms |-> {2}, price |-> NoNumber]}

\* One step, the first integer that is no double, and to 2^Widest.
ChosenAmounts == {1, -1, 5, 15}
ChosenRanges  == {{}, {"misplaced"}}
==============================================================================
